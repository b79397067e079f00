----------------------- MODULE DestinationSpacingProofs -----------------------
(***************************************************************************)
(* What is proved of DestinationSpacing for every gap, cycle and set of     *)
(* schedules: that the arithmetic of destination_limits.py misses no two    *)
(* times of two rules that come too close (progressions by Bezout's         *)
(* identity, calendar rules by counting the instants of a cycle), and that  *)
(* the times of active rules therefore keep apart whatever is saved, run,   *)
(* skipped, paused or resumed; and that it reports no conflict, and refuses *)
(* no rule, without such two times.                                         *)
(***************************************************************************)
EXTENDS DestinationSpacing, FiniteSetTheorems, WellFoundedInduction, TLAPS

-----------------------------------------------------------------------------
(* Division and divisors *)

\* The floor division of the code (Python's //) by a positive number.
LEMMA FloorDivision ==
  ASSUME NEW a \in Int, NEW b \in Nat \ {0}
  PROVE  a \div b \in Int /\ (a \div b) * b <= a /\ a < (a \div b) * b + b
  OBVIOUS

\* Later points of a progression come later.
LEMMA TimesGrows ==
  ASSUME NEW a \in Int, NEW b \in Int, a <= b, NEW c \in Nat
  PROVE  a * c <= b * c
  OBVIOUS

\* A set of times has a first one: what next_occurrence chooses exists.
LEMMA FirstTime ==
  ASSUME NEW T \in SUBSET Nat, T # {}
  PROVE  \E t \in T : \A u \in T : t <= u
<1>1. OpToRel(<, Nat) = {ss \in Nat \X Nat : ss[1] < ss[2]}
  BY DEF OpToRel
<1>2. PICK t \in T : \A u \in T : <<u, t>> \notin OpToRel(<, Nat)
  BY NatLessThanWellFounded, WFMin
<1>3. \A u \in T : ~(u < t)
  BY <1>1, <1>2
<1> QED
  BY <1>3

\* Quotient and rest are the only ones there are.
LEMMA DivisionIs ==
  ASSUME NEW n \in Int, NEW b \in Nat \ {0}, NEW k \in Int, NEW r \in Int,
         0 <= r, r < b, n = k * b + r
  PROVE  n \div b = k /\ n % b = r
<1> DEFINE q == n \div b  s == n % b
<1>1. q \in Int /\ s \in Int /\ n = q * b + s /\ 0 <= s /\ s < b
  OBVIOUS
<1> HIDE DEF q, s
<1>2. q \in Int /\ k \in Int /\ q * b \in Int /\ k * b \in Int
  BY <1>1
<1>3. ~(q < k)
  <2> SUFFICES ASSUME q + 1 <= k PROVE FALSE
    BY <1>1
  <2>1. (q + 1) * b <= k * b
    BY <1>1, TimesGrows
  <2>2. (q + 1) * b = q * b + b
    BY <1>1
  <2> QED
    BY <1>1, <1>2, <2>1, <2>2
<1>4. ~(k < q)
  <2> SUFFICES ASSUME k + 1 <= q PROVE FALSE
    BY <1>1
  <2>1. (k + 1) * b <= q * b
    BY <1>1, TimesGrows
  <2>2. (k + 1) * b = k * b + b
    OBVIOUS
  <2> QED
    BY <1>1, <1>2, <2>1, <2>2
<1>5. q = k
  BY <1>1, <1>3, <1>4
<1>6. s = r
  BY <1>1, <1>2, <1>5
<1> QED
  BY <1>5, <1>6 DEF q, s

\* What // and % leave: quotient and rest.
LEMMA RestIs ==
  ASSUME NEW n \in Int, NEW b \in Nat \ {0}
  PROVE  /\ n \div b \in Int /\ n % b \in Int /\ 0 <= n % b /\ n % b < b
         /\ n = ((n \div b) * b) + (n % b)
  OBVIOUS

\* A multiple is what leaves no rest.
LEMMA MultipleIs ==
  ASSUME NEW n \in Int, NEW b \in Nat \ {0}
  PROVE  n % b = 0 <=> \E q \in Int : n = q * b
<1>1. n % b = 0 => n = (n \div b) * b /\ n \div b \in Int
  <2>1. (n \div b) * b \in Int
    BY RestIs
  <2> QED
    BY <2>1, RestIs
<1>2. ASSUME NEW q \in Int, n = q * b PROVE n % b = 0
  <2>1. n = q * b + 0 /\ 0 <= 0 /\ 0 < b /\ 0 \in Int
    BY <1>2
  <2> QED
    BY <2>1, DivisionIs
<1> QED
  BY <1>1, <1>2

\* math.gcd: there is a greatest common divisor.
LEMMA GcdIs ==
  ASSUME NEW a \in Nat \ {0}, NEW b \in Nat \ {0}, NEW d, d = gcd(a, b)
  PROVE  /\ d \in Nat \ {0} /\ a % d = 0 /\ b % d = 0
         /\ \A e \in (d + 1)..a : a % e # 0 \/ b % e # 0
<1> DEFINE Common == {e \in 1..a : a % e = 0 /\ b % e = 0}
           T == {a - e : e \in Common}
<1>1. 1 \in Common
  BY DivisionIs
<1>2. T \in SUBSET Nat /\ T # {}
  BY <1>1
<1>3. PICK t \in T : \A u \in T : t <= u
  <2> HIDE DEF T
  <2> QED
    BY <1>2, FirstTime
<1>4. PICK g \in Common : t = a - g
  OBVIOUS
<1>5. \A e \in (g + 1)..a : a % e # 0 \/ b % e # 0
  <2> SUFFICES ASSUME NEW e \in (g + 1)..a, a % e = 0, b % e = 0 PROVE FALSE
    OBVIOUS
  <2>1. e \in Common
    BY <1>4
  <2>2. a - g <= a - e
    BY <1>3, <1>4, <2>1
  <2> QED
    BY <1>4, <2>2
<1> DEFINE Greatest(e) == /\ a % e = 0 /\ b % e = 0
                          /\ \A c \in (e + 1)..a : a % c # 0 \/ b % c # 0
<1>6. g \in 1..a /\ Greatest(g)
  BY <1>4, <1>5
<1>7. gcd(a, b) = CHOOSE e \in 1..a : Greatest(e)
  BY DEF gcd
<1> HIDE DEF Greatest
<1>8. d \in 1..a /\ Greatest(d)
  BY <1>6, <1>7
<1> QED
  BY <1>8 DEF Greatest

\* Bezout: numbers without a common divisor have a combination that is 1.
LEMMA Bezout ==
  ASSUME NEW a \in Nat \ {0}, NEW b \in Nat \ {0},
         \A e \in Nat \ {0} : a % e = 0 /\ b % e = 0 => e = 1
  PROVE  \E u, v \in Int : u * a + v * b = 1
<1> DEFINE Combines(n) == \E x, y \in Int : n = x * a + y * b
           S == {n \in Nat : Combines(n)}
           T == {n \in S : n # 0}
<1>6. Combines(a)
  <2>1. a = 1 * a + 0 * b
    OBVIOUS
  <2> WITNESS 1 \in Int, 0 \in Int
  <2> QED
    BY <2>1
<1>7. Combines(b)
  <2>1. b = 0 * a + 1 * b
    OBVIOUS
  <2> WITNESS 0 \in Int, 1 \in Int
  <2> QED
    BY <2>1
<1>1. a \in T
  <2> HIDE DEF Combines
  <2> QED
    BY <1>6
<1>2. PICK g \in T : \A n \in T : g <= n
  <2> HIDE DEF Combines
  <2> QED
    BY <1>1, FirstTime
<1>3. PICK u \in Int, v \in Int : g = u * a + v * b
  OBVIOUS
<1>4. g \in Nat \ {0}
  OBVIOUS
<1>5. ASSUME NEW n \in S
      PROVE  n % g = 0
  <2>0. PICK x \in Int, y \in Int : n = x * a + y * b
    OBVIOUS
  <2> DEFINE q == n \div g  r == n % g
  <2>1. q \in Int /\ r \in Int /\ 0 <= r /\ r < g /\ n = q * g + r
    BY <1>4, RestIs
  <2> HIDE DEF q, r
  <2>2. r = (x - q * u) * a + (y - q * v) * b
    <3>1. q * g = (q * u) * a + (q * v) * b
      BY <1>3, <2>1
    <3>2. (x - q * u) * a = x * a - (q * u) * a /\ (y - q * v) * b = y * b - (q * v) * b
      BY <2>1
    <3>3. /\ (q * u) * a \in Int /\ (q * v) * b \in Int /\ x * a \in Int /\ y * b \in Int
          /\ q * g \in Int
      BY <1>4, <2>1
    <3> QED
      BY <2>0, <2>1, <3>1, <3>2, <3>3
  <2>3. r # 0 => r \in T
    <3>1. x - q * u \in Int /\ y - q * v \in Int /\ r \in Nat
      BY <2>1
    <3>2. Combines(r)
      <4> USE <3>1
      <4> WITNESS x - q * u \in Int, y - q * v \in Int
      <4> QED
        BY <2>2
    <3> HIDE DEF Combines
    <3> QED
      BY <3>1, <3>2
  <2>4. r = 0
    <3> HIDE DEF T
    <3> QED
      BY <1>2, <1>4, <2>1, <2>3
  <2> QED
    BY <2>4 DEF r
<1> HIDE DEF Combines
<1>9. a \in S /\ b \in S
  BY <1>6, <1>7
<1> HIDE DEF S, T
<1>8. g = 1
  BY <1>4, <1>5, <1>9
<1> QED
  BY <1>3, <1>8

\* pow(value, -1, modulus) exists for numbers without a common divisor.
LEMMA InverseIs ==
  ASSUME NEW a \in Nat \ {0}, NEW b \in Nat \ {0}, b > 1,
         NEW u \in Int, NEW v \in Int, u * a + v * b = 1,
         NEW x, x = inverse(a, b)
  PROVE  x \in 0..(b - 1) /\ (a * x) % b = 1
<1> DEFINE y == u % b  q == u \div b
<1>1. y \in Int /\ q \in Int /\ 0 <= y /\ y < b /\ u = q * b + y
  BY RestIs
<1> HIDE DEF y, q
<1>2. (a * y) % b = 1
  <2> DEFINE k == -v - a * q
  <2>1. k \in Int /\ a * y \in Int
    BY <1>1
  <2>2. a * y = k * b + 1
    <3>1. u * a = (a * q) * b + a * y
      BY <1>1
    <3>2. k * b = -(v * b) - (a * q) * b
      BY <1>1
    <3>3. u * a \in Int /\ v * b \in Int /\ (a * q) * b \in Int /\ k * b \in Int
      BY <1>1, <2>1
    <3> HIDE DEF k
    <3> QED
      BY <2>1, <3>1, <3>2, <3>3
  <2> HIDE DEF k
  <2>3. 0 <= 1 /\ 1 < b /\ 1 \in Int
    OBVIOUS
  <2> DEFINE n == a * y
  <2>4. n \in Int /\ n = k * b + 1
    BY <2>1, <2>2
  <2> HIDE DEF n
  <2>5. n % b = 1
    BY ONLY <2>1, <2>3, <2>4, b \in Nat \ {0}, DivisionIs
  <2> QED
    BY <2>5 DEF n
<1>3. y \in 0..(b - 1)
  BY <1>1
<1> QED
  BY <1>2, <1>3 DEF inverse

\* The smallest quotient whose multiple is not below v, and the largest not above it.
LEMMA CeilIs ==
  ASSUME NEW v \in Int, NEW b \in Nat \ {0}, NEW t \in Int
  PROVE  ceil(v, b) \in Int /\ (t >= ceil(v, b) <=> t * b >= v)
<1> DEFINE q == (-v) \div b
<1>1. q \in Int /\ q * b <= -v /\ -v < q * b + b
  BY FloorDivision
<1>2. ceil(v, b) = -q
  BY DEF ceil
<1> HIDE DEF q
<1>3. q * b \in Int /\ t * b \in Int /\ (-q) * b = -(q * b) /\ (t + q) * b = t * b + q * b
  BY <1>1
<1>4. t + q >= 0 => t * b >= v
  <2> SUFFICES ASSUME t + q >= 0 PROVE t * b >= v
    OBVIOUS
  <2>1. 0 * b <= (t + q) * b
    BY <1>1, TimesGrows
  <2> QED
    BY <1>1, <1>3, <2>1
<1>5. t + q <= -1 => ~(t * b >= v)
  <2> SUFFICES ASSUME t + q <= -1 PROVE ~(t * b >= v)
    OBVIOUS
  <2>1. (t + q) * b <= (-1) * b
    BY <1>1, TimesGrows
  <2> QED
    BY <1>1, <1>3, <2>1
<1> QED
  BY <1>1, <1>2, <1>4, <1>5

\* The floor of v / b is at least t when t * b is no more than v.
LEMMA FloorIs ==
  ASSUME NEW v \in Int, NEW b \in Nat \ {0}, NEW t \in Int
  PROVE  v \div b \in Int /\ (t <= v \div b <=> t * b <= v)
<1> DEFINE q == v \div b
<1>1. q \in Int /\ q * b <= v /\ v < q * b + b
  BY FloorDivision
<1> HIDE DEF q
<1>3. q * b \in Int /\ t * b \in Int /\ (q + 1) * b = q * b + b
  BY <1>1
<1>4. t <= q => t * b <= v
  <2> SUFFICES ASSUME t <= q PROVE t * b <= v
    OBVIOUS
  <2>1. t * b <= q * b
    BY <1>1, TimesGrows
  <2> QED
    BY <1>1, <1>3, <2>1
<1>5. q + 1 <= t => ~(t * b <= v)
  <2> SUFFICES ASSUME q + 1 <= t PROVE ~(t * b <= v)
    OBVIOUS
  <2>1. (q + 1) * b <= t * b
    BY <1>1, TimesGrows
  <2> QED
    BY <1>1, <1>3, <2>1
<1>6. v \div b \in Int /\ (t <= q <=> t * b <= v)
  BY <1>1, <1>4, <1>5 DEF q
<1> QED
  BY <1>6 DEF q

\* What is left of two steps when their greatest common divisor is taken out has none.
LEMMA StepsOverDivisor ==
  ASSUME NEW L \in Nat \ {0}, NEW R \in Nat \ {0}, NEW d, d = gcd(L, R)
  PROVE  /\ d \in Nat \ {0} /\ L \div d \in Nat \ {0} /\ R \div d \in Nat \ {0}
         /\ L = (L \div d) * d /\ R = (R \div d) * d
         /\ \A e \in Nat \ {0} : (L \div d) % e = 0 /\ (R \div d) % e = 0 => e = 1
<1>1. /\ d \in Nat \ {0} /\ L % d = 0 /\ R % d = 0
      /\ \A e \in (d + 1)..L : L % e # 0 \/ R % e # 0
  BY GcdIs
<1> DEFINE a == L \div d  b == R \div d
<1>2. a \in Int /\ b \in Int /\ L = a * d /\ R = b * d
  <2>1. /\ L = (a * d) + (L % d) /\ a \in Int
        /\ R = (b * d) + (R % d) /\ b \in Int
    <3>1. ASSUME NEW n \in Nat PROVE n = ((n \div d) * d) + (n % d) /\ n \div d \in Int
      <4>1. d \in Nat \ {0} /\ n \in Int
        BY <1>1
      <4> QED
        BY ONLY <4>1, RestIs
    <3>2. L \in Nat /\ R \in Nat
      OBVIOUS
    <3> QED
      BY ONLY <3>1, <3>2 DEF a, b
  <2> HIDE DEF a, b
  <2>2. a * d \in Int /\ b * d \in Int
    BY <1>1, <2>1
  <2> QED
    BY <1>1, <2>1, <2>2
<1> HIDE DEF a, b
<1>3. ASSUME NEW n \in Int, NEW N \in Nat \ {0}, N = n * d PROVE n \in Nat \ {0}
  <2> SUFFICES ASSUME n <= 0 PROVE FALSE
    BY <1>3
  <2>1. n * d <= 0 * d
    BY <1>1, TimesGrows
  <2>2. 0 * d = 0
    BY <1>1
  <2> QED
    BY ONLY <1>3, <2>1, <2>2
<1>4. a \in Nat \ {0} /\ b \in Nat \ {0}
  BY <1>2, <1>3
<1>5. ASSUME NEW e \in Nat \ {0}, a % e = 0, b % e = 0 PROVE e = 1
  <2>0. a \in Int /\ b \in Int
    BY <1>4
  <2>1. PICK p \in Int : a = p * e
    BY ONLY <2>0, <1>5, MultipleIs
  <2>2. PICK q \in Int : b = q * e
    BY ONLY <2>0, <1>5, MultipleIs
  <2> DEFINE c == e * d
  <2>3. c \in Nat \ {0}
    BY <1>1, <1>3
  <2>4. L = p * c /\ R = q * c
    BY <1>1, <1>2, <2>1, <2>2
  <2> HIDE DEF c
  <2>5. L % c = 0 /\ R % c = 0
    BY <2>3, <2>4, MultipleIs
  <2>6. c <= L
    <3>1. p >= 1
      <4> SUFFICES ASSUME p <= 0 PROVE FALSE
        OBVIOUS
      <4>1. p * e <= 0 * e
        BY TimesGrows
      <4> QED
        BY <1>4, <2>1, <4>1
    <3>2. 1 * c <= p * c
      BY <2>3, <3>1, TimesGrows
    <3> QED
      BY <2>3, <2>4, <3>2
  <2>7. ~(d + 1 <= c)
    BY <1>1, <2>3, <2>5, <2>6
  <2>8. e >= 2 => 2 * d <= c
    BY <1>1, TimesGrows DEF c
  <2> QED
    BY <1>1, <2>3, <2>7, <2>8
<1> QED
  BY <1>1, <1>2, <1>4, <1>5 DEF a, b

-----------------------------------------------------------------------------
(* Progressions *)

\* The pairs (i, j) with a * i - b * j = m are a progression that goes through i0.
PairsFrom(i0, a, b, m) ==
  /\ i0 \in Nat
  /\ \E j0 \in Int :
       /\ i0 * a - j0 * b = m
       /\ \A i, j \in Int : i * a - j * b = m <=> \E t \in Int : i = i0 + t * b /\ j = j0 + t * a

\* The pairs (i, j) with a * i - b * j = m, one of which the code finds with the inverse, are a
\* progression.
LEMMA PairsAre ==
  ASSUME NEW a \in Nat \ {0}, NEW b \in Nat \ {0},
         \A e \in Nat \ {0} : a % e = 0 /\ b % e = 0 => e = 1,
         NEW m \in Int, NEW i0, i0 = (IF b > 1 THEN (m * inverse(a, b)) % b ELSE 0)
  PROVE  PairsFrom(i0, a, b, m)
<1>1. PICK u \in Int, v \in Int : u * a + v * b = 1
  BY Bezout
<1>2. i0 \in Nat /\ \E j0 \in Int : i0 * a - j0 * b = m
  <2>1. CASE b > 1
    <3> DEFINE x == inverse(a, b)  n == m * x  p == a * x
    <3>1. x \in 0..(b - 1) /\ (a * x) % b = 1
      BY <1>1, <2>1, InverseIs
    <3> HIDE DEF x
    <3>2. n \in Int /\ p \in Int /\ p % b = 1
      BY <3>1
    <3> DEFINE q == n \div b  k == p \div b
    <3>3. i0 = n % b
      BY <2>1 DEF x
    <3>4. q \in Int /\ i0 \in Int /\ 0 <= i0 /\ n = (q * b) + i0
      <4> HIDE DEF n
      <4> QED
        BY <3>2, <3>3, RestIs
    <3>5. k \in Int /\ p = (k * b) + 1
      <4> HIDE DEF p
      <4>1. p = ((p \div b) * b) + (p % b) /\ p \div b \in Int
        BY <3>2, RestIs
      <4> QED
        BY <3>2, <4>1
    <3> HIDE DEF q, k
    <3> DEFINE j0 == m * k - a * q
    <3>6. i0 * a = a * n - (a * q) * b
      <4>1. i0 = n - q * b
        BY <3>2, <3>4
      <4>2. (n - q * b) * a = a * n - (a * q) * b
        <5> HIDE DEF n
        <5> QED
          BY <3>2, <3>4
      <4> QED
        BY <4>1, <4>2
    <3>7. a * n = m * p
      BY <3>1
    <3>8. m * p = (m * k) * b + m
      <4> HIDE DEF p
      <4> QED
        BY <3>2, <3>5
    <3>9. j0 * b = (m * k) * b - (a * q) * b /\ j0 \in Int
      BY <3>4, <3>5
    <3>10. (m * k) * b \in Int /\ (a * q) * b \in Int
      BY <3>4, <3>5
    <3> HIDE DEF j0, n, p
    <3>11. i0 * a - j0 * b = m
      BY ONLY <3>6, <3>7, <3>8, <3>9, <3>10, m \in Int
    <3>12. i0 \in Nat /\ j0 \in Int
      BY <3>4, <3>9
    <3>13. \E j \in Int : i0 * a - j * b = m
      <4> USE <3>12
      <4> WITNESS j0 \in Int
      <4> QED
        BY <3>11
    <3> QED
      BY <3>12, <3>13
  <2>2. CASE ~(b > 1)
    <3>1. i0 = 0 /\ b = 1
      BY <2>2
    <3>2. 0 * a - (-m) * 1 = m /\ -m \in Int
      OBVIOUS
    <3> QED
      BY <3>1, <3>2
  <2> QED
    BY <2>1, <2>2
<1>3. PICK j0 \in Int : i0 * a - j0 * b = m
  BY <1>2
<1>4. ASSUME NEW i \in Int, NEW j \in Int, i * a - j * b = m
      PROVE  \E t \in Int : i = i0 + t * b /\ j = j0 + t * a
  <2> DEFINE x == i - i0  y == j - j0  t == u * y + v * x
  <2>1. x \in Int /\ y \in Int /\ t \in Int
    BY <1>2, <1>3
  <2>2. x * a = y * b
    <3>1. x * a = i * a - i0 * a /\ y * b = j * b - j0 * b
      BY <1>2, <1>3
    <3>2. i * a \in Int /\ i0 * a \in Int /\ j * b \in Int /\ j0 * b \in Int
      BY <1>2, <1>3
    <3> QED
      BY ONLY <1>3, <1>4, <3>1, <3>2
  <2>3. x = t * b
    <3> HIDE DEF x, y
    <3>1. t * b = u * (y * b) + (v * b) * x
      BY <2>1
    <3>2. u * (x * a) + (v * b) * x = (u * a + v * b) * x
      BY <2>1
    <3>3. (u * a + v * b) * x = x
      BY <1>1, <2>1
    <3> QED
      BY <2>2, <3>1, <3>2, <3>3
  <2>4. y = t * a
    <3> HIDE DEF x, y
    <3>1. t * a = (u * a) * y + v * (x * a)
      BY <2>1
    <3>2. (u * a) * y + v * (y * b) = (u * a + v * b) * y
      BY <2>1
    <3>3. (u * a + v * b) * y = y
      BY <1>1, <2>1
    <3> QED
      BY <2>2, <3>1, <3>2, <3>3
  <2> HIDE DEF t
  <2>5. i = i0 + t * b /\ j = j0 + t * a
    <3>1. t * b \in Int /\ t * a \in Int
      BY <2>1
    <3> QED
      BY <1>2, <1>3, <2>3, <2>4, <3>1
  <2> QED
    BY <2>1, <2>5
<1>5. ASSUME NEW t \in Int, NEW i \in Int, NEW j \in Int, i = i0 + t * b, j = j0 + t * a
      PROVE  i * a - j * b = m
  <2>1. i * a = i0 * a + (t * b) * a /\ j * b = j0 * b + (t * b) * a
    BY <1>2, <1>3, <1>5
  <2>2. i0 * a \in Int /\ (t * b) * a \in Int /\ j0 * b \in Int
    BY <1>2, <1>3
  <2> QED
    BY ONLY <1>3, <2>1, <2>2
<1>6. \A i, j \in Int : i * a - j * b = m <=> \E t \in Int : i = i0 + t * b /\ j = j0 + t * a
  <2> TAKE i, j \in Int
  <2>1. i * a - j * b = m => \E t \in Int : i = i0 + t * b /\ j = j0 + t * a
    BY <1>4
  <2>2. (\E t \in Int : i = i0 + t * b /\ j = j0 + t * a) => i * a - j * b = m
    BY <1>5
  <2> QED
    BY ONLY <2>1, <2>2
<1> QED
  BY <1>2, <1>3, <1>6 DEF PairsFrom

\* Within bounds, a step of a progression of pairs has both numbers at or above 0.
Bounded(p, k) == k \in Nat /\ (p.bounded => k <= p.last)

\* The progressions of destination_limits.py.
Progressions == [first : Int, step : Nat, bounded : BOOLEAN, last : Int]

\* sequences_conflict looks at one pair for each difference below the gap, and answers for
\* all pairs of points.
LEMMA SequencesExact ==
  ASSUME NEW left \in Progressions, NEW right \in Progressions, left.step # 0, right.step # 0
  PROVE  sequences_conflict(left, right) <=>
           \E i, j \in Nat : /\ Bounded(left, i) /\ Bounded(right, j)
                             /\ close(left.first + i * left.step, right.first + j * right.step)
<1> DEFINE L == left.step  R == right.step  D == left.first - right.first
           d == gcd(L, R)  a == L \div d  b == R \div d
           multiples == ceil(1 - Gap - D, d)..((Gap - 1 - D) \div d)
           i(m) == IF b > 1 THEN (m * inverse(a, b)) % b ELSE 0
           j(m) == (i(m) * L - m * d) \div R
           lower(m) == Most(ceil(-i(m), b), ceil(-j(m), a))
           Meets(m) == /\ left.bounded => lower(m) <= (left.last - i(m)) \div b
                       /\ right.bounded => lower(m) <= (right.last - j(m)) \div a
           Pair(x, y) == /\ Bounded(left, x) /\ Bounded(right, y)
                         /\ close(left.first + x * L, right.first + y * R)
<1>1. sequences_conflict(left, right) <=> \E m \in multiples : Meets(m)
  BY DEF sequences_conflict
<1>2. /\ L \in Nat \ {0} /\ R \in Nat \ {0} /\ D \in Int /\ left.first \in Int /\ right.first \in Int
      /\ left.last \in Int /\ right.last \in Int
      /\ left.bounded \in BOOLEAN /\ right.bounded \in BOOLEAN
      /\ Gap \in Nat \ {0}
  BY SpacingAssumption DEF Progressions
<1> HIDE DEF multiples
<1>3. /\ d \in Nat \ {0} /\ a \in Nat \ {0} /\ b \in Nat \ {0} /\ L = a * d /\ R = b * d
      /\ \A e \in Nat \ {0} : a % e = 0 /\ b % e = 0 => e = 1
  <2> HIDE DEF L, R
  <2> QED
    BY <1>2, StepsOverDivisor
<1> HIDE DEF a, b, d, L, R, D
<1>4. ASSUME NEW m \in Int
      PROVE  /\ i(m) \in Nat /\ j(m) \in Int
             /\ \A x, y \in Int : x * a - y * b = m
                                    <=> \E t \in Int : x = i(m) + t * b /\ y = j(m) + t * a
  <2> DEFINE i0 == i(m)
  <2>1. i0 = (IF b > 1 THEN (m * inverse(a, b)) % b ELSE 0)
    OBVIOUS
  <2>2. j(m) = (i0 * L - m * d) \div R
    OBVIOUS
  <2> HIDE DEF i0
  <2>3. PairsFrom(i0, a, b, m)
    <3>1. a \in Nat \ {0} /\ b \in Nat \ {0} /\ \A e \in Nat \ {0} : a % e = 0 /\ b % e = 0 => e = 1
      BY <1>3
    <3> QED
      BY ONLY <3>1, <2>1, m \in Int, PairsAre
  <2>4. PICK j0 \in Int :
          /\ i0 * a - j0 * b = m
          /\ \A x, y \in Int : x * a - y * b = m <=> \E t \in Int : x = i0 + t * b /\ y = j0 + t * a
    BY <2>3 DEF PairsFrom
  <2>7. i0 \in Nat
    BY <2>3 DEF PairsFrom
  <2>5. j(m) = j0
    <3> DEFINE n == i0 * L - m * d
    <3>1. n = j0 * R + 0
      <4>1. i0 * L = (i0 * a) * d /\ j0 * R = (j0 * b) * d
        BY <1>3, <2>7
      <4>2. m * d = (i0 * a) * d - (j0 * b) * d
        <5>1. i0 * a \in Int /\ j0 * b \in Int /\ m = i0 * a - j0 * b
          BY <1>3, <2>7, <2>4
        <5> QED
          BY ONLY <1>3, <5>1
      <4>3. (i0 * a) * d \in Int /\ (j0 * b) * d \in Int
        BY <1>3, <2>7
      <4> QED
        BY ONLY <4>1, <4>2, <4>3
    <3>2. n \in Int /\ 0 <= 0 /\ 0 < R /\ 0 \in Int
      BY <1>2, <1>3, <2>7
    <3> HIDE DEF n
    <3>3. n \div R = j0
      BY ONLY <1>2, <3>1, <3>2, j0 \in Int, DivisionIs
    <3> QED
      BY <2>2, <3>3 DEF n
  <2>6. i(m) = i0
    BY DEF i0
  <2> HIDE DEF i, j
  <2> QED
    BY ONLY <2>7, <2>4, <2>5, <2>6, j0 \in Int
<1> HIDE DEF i, j
<1>a. ASSUME NEW m \in Int
      PROVE  i(m) \in Int /\ j(m) \in Int /\ -i(m) \in Int /\ -j(m) \in Int
  <2>1. i(m) \in Nat /\ j(m) \in Int
    BY ONLY <1>4, m \in Int
  <2> QED
    BY ONLY <2>1
<1>5. ASSUME NEW m \in Int
      PROVE  /\ lower(m) \in Int
             /\ \A t \in Int : t >= lower(m) <=> i(m) + t * b >= 0 /\ j(m) + t * a >= 0
  <2> DEFINE p == ceil(-i(m), b)  q == ceil(-j(m), a)
  <2>1. -i(m) \in Int /\ -j(m) \in Int /\ i(m) \in Int /\ j(m) \in Int
    BY <1>a
  <2>2. ASSUME NEW t \in Int
        PROVE  /\ p \in Int /\ q \in Int
               /\ t >= p <=> t * b >= -i(m)
               /\ t >= q <=> t * a >= -j(m)
               /\ t * b \in Int /\ t * a \in Int
    <3> DEFINE v == -i(m)  w == -j(m)
    <3>1. v \in Int /\ w \in Int /\ a \in Nat \ {0} /\ b \in Nat \ {0}
      BY <1>3, <2>1
    <3> HIDE DEF v, w
    <3>2. ceil(v, b) \in Int /\ (t >= ceil(v, b) <=> t * b >= v)
      BY ONLY <3>1, t \in Int, CeilIs
    <3>3. ceil(w, a) \in Int /\ (t >= ceil(w, a) <=> t * a >= w)
      BY ONLY <3>1, t \in Int, CeilIs
    <3>4. t * b \in Int /\ t * a \in Int
      BY ONLY <3>1, t \in Int
    <3> QED
      BY <3>2, <3>3, <3>4 DEF v, w
  <2>3. lower(m) = Most(p, q)
    OBVIOUS
  <2>4. p \in Int /\ q \in Int
    BY <2>2, 0 \in Int
  <2> HIDE DEF p, q
  <2>5. lower(m) \in Int /\ \A t \in Int : t >= lower(m) <=> t >= p /\ t >= q
    BY <2>3, <2>4 DEF Most
  <2> HIDE DEF lower
  <2>6. ASSUME NEW t \in Int
        PROVE  t >= lower(m) <=> i(m) + t * b >= 0 /\ j(m) + t * a >= 0
    <3>1. t * b >= -i(m) <=> i(m) + t * b >= 0
      BY <2>1, <2>2
    <3>2. t * a >= -j(m) <=> j(m) + t * a >= 0
      BY <2>1, <2>2
    <3> QED
      BY <2>2, <2>5, <3>1, <3>2
  <2> QED
    BY <2>5, <2>6
<1> HIDE DEF lower
<1>6. ASSUME NEW m \in Int, NEW t \in Int
      PROVE  /\ t <= (left.last - i(m)) \div b <=> i(m) + t * b <= left.last
             /\ t <= (right.last - j(m)) \div a <=> j(m) + t * a <= right.last
             /\ (left.last - i(m)) \div b \in Int /\ (right.last - j(m)) \div a \in Int
             /\ i(m) + t * b \in Int /\ j(m) + t * a \in Int
  <2> DEFINE v == left.last - i(m)  w == right.last - j(m)
  <2>1. i(m) \in Int /\ j(m) \in Int /\ v \in Int /\ w \in Int /\ t * b \in Int /\ t * a \in Int
    <3>1. a \in Int /\ b \in Int
      BY <1>3
    <3>2. t * b \in Int /\ t * a \in Int
      BY ONLY <3>1, t \in Int
    <3> QED
      BY <1>2, <1>a, <3>2
  <2>2. t * b <= v <=> i(m) + t * b <= left.last
    BY <1>2, <2>1
  <2>3. t * a <= w <=> j(m) + t * a <= right.last
    BY <1>2, <2>1
  <2> HIDE DEF v, w
  <2>4. v \div b \in Int /\ (t <= v \div b <=> t * b <= v)
    BY <1>3, <2>1, FloorIs
  <2>5. w \div a \in Int /\ (t <= w \div a <=> t * a <= w)
    BY <1>3, <2>1, FloorIs
  <2>6. i(m) + t * b \in Int /\ j(m) + t * a \in Int
    BY <2>1
  <2> QED
    BY <2>2, <2>3, <2>4, <2>5, <2>6 DEF v, w
<1>7. ASSUME NEW m \in Int
      PROVE  Meets(m) <=>
                \E x, y \in Nat : Bounded(left, x) /\ Bounded(right, y) /\ x * a - y * b = m
  <2>1. ASSUME NEW x \in Nat, NEW y \in Nat, Bounded(left, x), Bounded(right, y), x * a - y * b = m
        PROVE  Meets(m)
    <3>1. PICK t \in Int : x = i(m) + t * b /\ y = j(m) + t * a
      <4>1. x \in Int /\ y \in Int
        OBVIOUS
      <4> QED
        BY <1>4, <2>1, <4>1
    <3>2. t >= lower(m)
      BY <1>5, <3>1
    <3>3. left.bounded => t <= (left.last - i(m)) \div b
      BY <1>6, <2>1, <3>1 DEF Bounded
    <3>4. right.bounded => t <= (right.last - j(m)) \div a
      BY <1>6, <2>1, <3>1 DEF Bounded
    <3>5. /\ (left.last - i(m)) \div b \in Int /\ (right.last - j(m)) \div a \in Int
          /\ lower(m) \in Int
      BY <1>5, <1>6
    <3> DEFINE v == (left.last - i(m)) \div b  w == (right.last - j(m)) \div a
    <3> HIDE DEF v, w
    <3>6. (left.bounded => lower(m) <= v) /\ (right.bounded => lower(m) <= w)
      <4>1. /\ v \in Int /\ w \in Int /\ lower(m) \in Int /\ t \in Int /\ t >= lower(m)
            /\ (left.bounded => t <= v) /\ (right.bounded => t <= w)
        BY <3>2, <3>3, <3>4, <3>5 DEF v, w
      <4>2. (t <= v => lower(m) <= v) /\ (t <= w => lower(m) <= w)
        BY ONLY <4>1
      <4> QED
        BY ONLY <4>1, <4>2
    <3> QED
      BY <3>6 DEF v, w
  <2>2. ASSUME Meets(m)
        PROVE  \E x, y \in Nat : Bounded(left, x) /\ Bounded(right, y) /\ x * a - y * b = m
    <3> DEFINE t == lower(m)  x == i(m) + t * b  y == j(m) + t * a
    <3>1. t \in Int /\ x \in Int /\ y \in Int
      BY <1>5, <1>6
    <3>2. x >= 0 /\ y >= 0
      <4>1. t >= t
        BY <3>1
      <4> QED
        BY <1>5, <3>1, <4>1
    <3>3. (left.bounded => x <= left.last) /\ (right.bounded => y <= right.last)
      BY <1>6, <2>2, <3>1
    <3>4. x * a - y * b = m
      BY <1>4, <3>1
    <3> HIDE DEF x, y
    <3>5. x \in Nat /\ y \in Nat /\ Bounded(left, x) /\ Bounded(right, y)
      BY <3>1, <3>2, <3>3 DEF Bounded
    <3> QED
      BY <3>4, <3>5
  <2> HIDE DEF Meets
  <2> QED
    BY <2>1, <2>2
<1> HIDE DEF Meets
<1>8. ASSUME NEW m \in Int
      PROVE  m \in multiples <=> -Gap < D + m * d /\ D + m * d < Gap
  <2> DEFINE v == 1 - Gap - D  w == Gap - 1 - D
  <2>1. v \in Int /\ w \in Int /\ m * d \in Int
    BY <1>2, <1>3
  <2>2. ceil(v, d) \in Int /\ (m >= ceil(v, d) <=> m * d >= v)
    <3> HIDE DEF v
    <3> QED
      BY <1>3, <2>1, CeilIs
  <2>3. w \div d \in Int /\ (m <= w \div d <=> m * d <= w)
    <3> HIDE DEF w
    <3> QED
      BY <1>3, <2>1, FloorIs
  <2>4. m * d >= v <=> -Gap < D + m * d
    BY <1>2, <2>1
  <2>5. m * d <= w <=> D + m * d < Gap
    BY <1>2, <2>1
  <2>6. m \in multiples <=> m >= ceil(v, d) /\ m <= w \div d
    <3> HIDE DEF v, w
    <3>1. multiples = ceil(v, d)..(w \div d)
      BY DEF multiples, v, w
    <3> QED
      BY <2>2, <2>3, <3>1
  <2> QED
    BY <2>2, <2>3, <2>4, <2>5, <2>6
<1>9. ASSUME NEW x \in Nat, NEW y \in Nat
      PROVE  /\ x * a - y * b \in Int
             /\ close(left.first + x * L, right.first + y * R) <=> x * a - y * b \in multiples
  <2> DEFINE m == x * a - y * b  e == left.first + x * L  f == right.first + y * R
  <2>1. m \in Int /\ e \in Int /\ f \in Int
    BY <1>2, <1>3
  <2>2. e - f = D + m * d
    <3>1. x * L = (x * a) * d /\ y * R = (y * b) * d /\ m * d = (x * a) * d - (y * b) * d
      BY <1>3
    <3>2. (x * a) * d \in Int /\ (y * b) * d \in Int
      BY <1>3
    <3> HIDE DEF m
    <3> QED
      BY <1>2, <3>1, <3>2 DEF D
  <2>3. close(e, f) <=> -Gap < e - f /\ e - f < Gap
    <3> HIDE DEF e, f
    <3> QED
      BY <1>2, <2>1 DEF close
  <2> HIDE DEF m
  <2>4. m \in multiples <=> -Gap < D + m * d /\ D + m * d < Gap
    BY <1>8, <2>1
  <2>5. close(e, f) <=> m \in multiples
    <3> HIDE DEF e, f
    <3> QED
      BY ONLY <2>2, <2>3, <2>4
  <2> QED
    BY <2>1, <2>5 DEF m
<1>10. multiples \subseteq Int
  BY DEF multiples
<1>11. (\E m \in multiples : Meets(m)) <=> \E x, y \in Nat : Pair(x, y)
  <2>1. ASSUME NEW m \in multiples, Meets(m) PROVE \E x, y \in Nat : Pair(x, y)
    <3>1. PICK x \in Nat, y \in Nat : Bounded(left, x) /\ Bounded(right, y) /\ x * a - y * b = m
      BY <1>7, <1>10, <2>1
    <3>2. close(left.first + x * L, right.first + y * R)
      BY <1>9, <2>1, <3>1
    <3> QED
      BY <3>1, <3>2
  <2>2. ASSUME NEW x \in Nat, NEW y \in Nat, Pair(x, y) PROVE \E m \in multiples : Meets(m)
    <3> DEFINE m == x * a - y * b
    <3>1. m \in Int /\ m \in multiples
      BY <1>9, <2>2
    <3>2. Meets(m)
      BY <1>7, <2>2, <3>1
    <3> HIDE DEF m
    <3> QED
      BY <3>1, <3>2
  <2> HIDE DEF Pair
  <2> QED
    BY <2>1, <2>2
<1> QED
  BY <1>1, <1>11 DEF L, R

\* The two candidates of near_point decide for every point of the progression, before,
\* between and after them, bounded or not: _near_point has no need to sample.
THEOREM NearPointExact ==
  ASSUME NEW point \in Int, NEW first \in Int, NEW step \in Nat \ {0},
         NEW bounded \in BOOLEAN, NEW last \in Int, bounded => last >= 0
  PROVE  near_point(point, [first |-> first, step |-> step, bounded |-> bounded,
                            last |-> last]) <=>
           \E k \in Nat : (bounded => k <= last) /\ close(point, first + k * step)
<1> DEFINE seq == [first |-> first, step |-> step, bounded |-> bounded, last |-> last]
           q == (point - first) \div step
           index == IF 0 > q THEN 0 ELSE q
           start == IF bounded THEN Least(index, last) ELSE index
           here(k) == (bounded => k <= last) /\ close(point, first + k * step)
<1>1. /\ q \in Int
      /\ first + q * step <= point
      /\ point < first + q * step + step
  BY FloorDivision
<1>2. index \in Nat
  BY <1>1
<1>3. start \in Nat /\ start <= index /\ (bounded => start <= last)
  BY <1>2 DEF Least
<1>4. near_point(point, seq) <=> here(start) \/ here(start + 1)
  <2>1. start = IF seq.bounded
                  THEN Least(Most(0, (point - seq.first) \div seq.step), seq.last)
                  ELSE Most(0, (point - seq.first) \div seq.step)
    BY DEF Most
  <2> HIDE DEF start
  <2> QED
    BY <2>1 DEF near_point
<1>5. ASSUME NEW k \in Nat, here(k)
      PROVE  here(start) \/ here(start + 1)
  <2>1. CASE k = start \/ k = start + 1
    BY <1>5, <2>1
  <2>2. CASE k < start
    <3>1. start = index => first + start * step <= point \/ start = 0
      BY <1>1
    <3>2. start * step <= index * step /\ k * step <= start * step
      BY <1>2, <1>3, <2>2, TimesGrows
    <3>3. index = q
      BY <1>2, <1>3, <2>2
    <3>4. first + k * step <= first + start * step /\ first + start * step <= point
      <4> HIDE DEF start, index, q
      <4> QED
        BY <1>1, <1>2, <1>3, <3>2, <3>3
    <3>5. k * step \in Int /\ start * step \in Int
      BY <1>3
    <3> HIDE DEF start
    <3> QED
      BY <1>3, <1>5, <3>4, <3>5, SpacingAssumption DEF close
  <2>3. CASE k > start + 1
    <3>1. start = index
      BY <1>2, <1>3, <1>5, <2>3 DEF Least
    <3>2. (start + 1) * step <= k * step /\ (q + 1) * step <= (start + 1) * step
      BY <1>1, <1>2, <1>3, <2>3, <3>1, TimesGrows
    <3>3. (q + 1) * step = q * step + step
      BY <1>1
    <3>4. k * step \in Int /\ (start + 1) * step \in Int /\ q * step \in Int
      BY <1>1, <1>3
    <3>5. point < first + (start + 1) * step
      <4> HIDE DEF start, q
      <4> QED
        BY <1>1, <3>2, <3>3, <3>4
    <3>6. bounded => start + 1 <= last
      BY <1>3, <1>5, <2>3
    <3> HIDE DEF start, q
    <3> QED
      BY <1>3, <1>5, <3>2, <3>4, <3>5, <3>6, SpacingAssumption DEF close
  <2> HIDE DEF start, here
  <2> QED
    BY <1>3, <2>1, <2>2, <2>3
<1>6. near_point(point, seq) <=> \E k \in Nat : here(k)
  <2> HIDE DEF start, here
  <2> QED
    BY <1>3, <1>4, <1>5
<1> QED
  BY <1>6

\* Two points are close whichever is named first.
LEMMA CloseBothWays ==
  ASSUME NEW x \in Int, NEW y \in Int
  PROVE  close(x, y) <=> close(y, x)
BY SpacingAssumption DEF close

\* A progression of one point, or of a step.
Sequence(p) == p \in Progressions /\ (p.step = 0 => p.bounded /\ p.last = 0)

\* Some point of the one is close to some point of the other.
Meet(left, right) ==
  \E i, j \in Nat : /\ Bounded(left, i) /\ Bounded(right, j)
                    /\ close(left.first + i * left.step, right.first + j * right.step)

\* progressions_conflict: whatever the two are, points or sequences, it answers whether some
\* point of the one is closer than the gap to some point of the other.
THEOREM ProgressionsExact ==
  ASSUME NEW left, NEW right, Sequence(left), Sequence(right)
  PROVE  progressions_conflict(left, right) <=> Meet(left, right)
<1>1. /\ left \in Progressions /\ right \in Progressions
      /\ left.step = 0 => left.bounded /\ left.last = 0
      /\ right.step = 0 => right.bounded /\ right.last = 0
  BY DEF Sequence
<1>2. ASSUME NEW p \in Progressions
      PROVE  /\ p.first \in Int /\ p.step \in Nat /\ p.bounded \in BOOLEAN /\ p.last \in Int
             /\ p = [first |-> p.first, step |-> p.step, bounded |-> p.bounded, last |-> p.last]
  BY DEF Progressions
<1>3. ASSUME NEW p \in Progressions, p.bounded, p.last < 0
      PROVE  \A k \in Nat : ~Bounded(p, k)
  BY <1>2, <1>3 DEF Bounded
<1>4. CASE (left.bounded /\ left.last < 0) \/ (right.bounded /\ right.last < 0)
  BY <1>1, <1>3, <1>4 DEF progressions_conflict, Meet
<1>5. CASE ~(left.bounded /\ left.last < 0) /\ ~(right.bounded /\ right.last < 0)
  <2>1. ASSUME NEW p \in Progressions, p.step = 0, p.bounded, p.last = 0
        PROVE  \A k \in Nat : Bounded(p, k) <=> k = 0
    BY <2>1 DEF Bounded
  <2>2. ASSUME NEW point \in Int, NEW p \in Progressions, p.step # 0, ~(p.bounded /\ p.last < 0)
        PROVE  near_point(point, p) <=>
                 \E k \in Nat : Bounded(p, k) /\ close(point, p.first + k * p.step)
    <3> DEFINE first == p.first  step == p.step  bounded == p.bounded  last == p.last
    <3>1. /\ first \in Int /\ step \in Nat \ {0} /\ bounded \in BOOLEAN /\ last \in Int
          /\ (bounded => last >= 0)
          /\ p = [first |-> first, step |-> step, bounded |-> bounded, last |-> last]
      BY <1>2, <2>2
    <3> HIDE DEF first, step, bounded, last
    <3>2. near_point(point, [first |-> first, step |-> step, bounded |-> bounded, last |-> last]) <=>
            \E k \in Nat : (bounded => k <= last) /\ close(point, first + k * step)
      BY <3>1, NearPointExact, Zenon
    <3> QED
      BY <3>1, <3>2 DEF Bounded, first, step, bounded, last
  <2>3. CASE left.step = 0 /\ right.step = 0
    <3>1. progressions_conflict(left, right) <=> close(left.first, right.first)
      BY <1>5, <2>3 DEF progressions_conflict
    <3>2. left.first + 0 * left.step = left.first /\ right.first + 0 * right.step = right.first
      BY <1>1, <1>2
    <3>3. Meet(left, right) <=> close(left.first + 0 * left.step, right.first + 0 * right.step)
      BY <1>1, <2>1, <2>3 DEF Meet
    <3> QED
      BY <3>1, <3>2, <3>3
  <2>4. CASE left.step = 0 /\ right.step # 0
    <3>1. progressions_conflict(left, right) <=> near_point(left.first, right)
      BY <1>5, <2>4 DEF progressions_conflict
    <3>2. left.first + 0 * left.step = left.first /\ left.first \in Int
      BY <1>1, <1>2
    <3>3. Meet(left, right) <=>
            \E j \in Nat : /\ Bounded(right, j)
                           /\ close(left.first + 0 * left.step, right.first + j * right.step)
      BY <1>1, <2>1, <2>4 DEF Meet
    <3> QED
      BY <1>1, <1>5, <2>2, <2>4, <3>1, <3>2, <3>3
  <2>5. CASE left.step # 0 /\ right.step = 0
    <3>1. progressions_conflict(left, right) <=> near_point(right.first, left)
      BY <1>5, <2>5 DEF progressions_conflict
    <3>2. right.first + 0 * right.step = right.first /\ right.first \in Int
      BY <1>1, <1>2
    <3>3. Meet(left, right) <=>
            \E i \in Nat : /\ Bounded(left, i)
                           /\ close(left.first + i * left.step, right.first + 0 * right.step)
      BY <1>1, <2>1, <2>5 DEF Meet
    <3>4. \A i \in Nat : close(left.first + i * left.step, right.first)
                        <=> close(right.first, left.first + i * left.step)
      <4> TAKE i \in Nat
      <4>1. left.first + i * left.step \in Int
        <5>1. left.first \in Int /\ left.step \in Nat
          BY <1>1, <1>2
        <5> QED
          BY ONLY <5>1, i \in Nat
      <4> QED
        BY <3>2, <4>1, CloseBothWays
    <3> QED
      BY <1>1, <1>5, <2>2, <2>5, <3>1, <3>2, <3>3, <3>4
  <2>6. CASE left.step # 0 /\ right.step # 0
    <3>1. progressions_conflict(left, right) <=> sequences_conflict(left, right)
      BY <1>5, <2>6 DEF progressions_conflict
    <3> QED
      BY <1>1, <2>6, <3>1, SequencesExact DEF Meet
  <2> QED
    BY <2>3, <2>4, <2>5, <2>6
<1> QED
  BY <1>4, <1>5

-----------------------------------------------------------------------------
(* Counting times *)

\* A set that maps one to one into a finite one is no larger.
LEMMA NoLarger ==
  ASSUME NEW S, NEW T, IsFiniteSet(T), NEW f \in [S -> T],
         \A x, y \in S : f[x] = f[y] => x = y
  PROVE  /\ IsFiniteSet(S) /\ Cardinality(S) \in Nat /\ Cardinality(T) \in Nat
         /\ Cardinality(S) <= Cardinality(T)
<1>1. f \in Injection(S, T)
  BY DEF Injection, IsInjective
<1> QED
  BY <1>1, FS_Injection, FS_CardinalityType

\* The instants of a schedule in a span of time.
Between(s, from, to) == {t \in from..to : Occurs(s, t)}

\* A longer span holds no fewer of them, and a span that ends at one of them holds one.
LEMMA BetweenGrows ==
  ASSUME NEW s, NEW from \in Int, NEW to \in Int
  PROVE  /\ IsFiniteSet(Between(s, from, to)) /\ Cardinality(Between(s, from, to)) \in Nat
         /\ \A f, t \in Int : from <= f /\ t <= to =>
              /\ Cardinality(Between(s, f, t)) \in Nat
              /\ Cardinality(Between(s, f, t)) <= Cardinality(Between(s, from, to))
         /\ from <= to /\ Occurs(s, to) => Cardinality(Between(s, from, to)) >= 1
<1> DEFINE B == Between(s, from, to)
<1>1. IsFiniteSet(from..to)
  BY FS_Interval
<1>2. B \in SUBSET (from..to)
  BY DEF Between
<1>3. IsFiniteSet(B) /\ Cardinality(B) \in Nat
  BY ONLY <1>1, <1>2, FS_Subset, FS_CardinalityType
<1>4. ASSUME NEW f \in Int, NEW t \in Int, from <= f, t <= to
      PROVE  /\ Cardinality(Between(s, f, t)) \in Nat
             /\ Cardinality(Between(s, f, t)) <= Cardinality(B)
  <2>1. Between(s, f, t) \in SUBSET B
    BY <1>4 DEF Between
  <2> HIDE DEF B
  <2> QED
    BY ONLY <1>3, <2>1, FS_Subset, FS_CardinalityType
<1>5. ASSUME from <= to, Occurs(s, to)
      PROVE  Cardinality(B) >= 1
  <2>1. to \in B
    BY <1>5 DEF Between
  <2> HIDE DEF B
  <2>2. Cardinality(B) # 0
    BY ONLY <1>3, <2>1, FS_EmptySet
  <2> QED
    BY ONLY <1>3, <2>2
<1> QED
  BY <1>3, <1>4, <1>5

-----------------------------------------------------------------------------
(* The times of a rule *)

\* A row whose due time is an instant of its schedule.
Fits(rw) ==
  /\ rw.sched \in Schedules /\ rw.due \in Nat /\ rw.done \in Nat
  /\ rw.due # NoTime => Occurs(rw.sched, rw.due)

\* The times a rule still has, without a horizon.
Comes(rw, t) ==
  /\ rw.due # NoTime /\ t \in Nat /\ rw.due <= t /\ Occurs(rw.sched, t)
  /\ rw.sched.end # NoTime => t <= rw.sched.end
  /\ rw.sched.runs # NoLimit =>
       Cardinality(Between(rw.sched, rw.due, t)) <= rw.sched.runs - rw.done

\* The times of the reference definition are among them.
LEMMA PlannedComes ==
  ASSUME NEW rw, Fits(rw), NEW t \in planned(rw)
  PROVE  Comes(rw, t)
<1> DEFINE s == rw.sched
           ahead == {u \in rw.due..Horizon : Occurs(s, u) /\ (s.end # NoTime => u <= s.end)}
<1>1. /\ s \in Schedules /\ rw.due \in Nat /\ rw.done \in Nat
      /\ s.end = NoTime \/ s.runs = NoLimit
  BY SchedulesAssumption DEF Fits
<1>2. /\ rw.due # NoTime /\ t \in ahead
      /\ s.runs # NoLimit => Cardinality({u \in ahead : u <= t}) <= s.runs - rw.done
  BY DEF planned
<1>3. s.runs # NoLimit => {u \in ahead : u <= t} = Between(s, rw.due, t)
  BY <1>1, <1>2, SpacingAssumption DEF Between
<1>4. t \in Nat /\ rw.due <= t /\ Occurs(s, t) /\ (s.end # NoTime => t <= s.end)
  BY <1>1, <1>2, SpacingAssumption
<1> QED
  BY <1>2, <1>3, <1>4 DEF Comes

\* A time to come that the reference definition sees is one of its times.
LEMMA ComesPlanned ==
  ASSUME NEW rw, Fits(rw), NEW t, Comes(rw, t), t <= Horizon
  PROVE  t \in planned(rw)
<1> DEFINE s == rw.sched
           ahead == {u \in rw.due..Horizon : Occurs(s, u) /\ (s.end # NoTime => u <= s.end)}
<1>1. /\ s \in Schedules /\ rw.due \in Nat /\ rw.done \in Nat /\ s.end \in Nat
      /\ s.end = NoTime \/ s.runs = NoLimit
  BY SchedulesAssumption DEF Fits
<1>2. /\ rw.due # NoTime /\ t \in Nat /\ rw.due <= t /\ Occurs(s, t)
      /\ s.end # NoTime => t <= s.end
      /\ s.runs # NoLimit => Cardinality(Between(s, rw.due, t)) <= s.runs - rw.done
  BY DEF Comes
<1>3. t \in ahead
  BY <1>1, <1>2, SpacingAssumption
<1>4. s.runs # NoLimit => {u \in ahead : u <= t} = Between(s, rw.due, t)
  BY <1>1, <1>2, SpacingAssumption DEF Between
<1> QED
  BY <1>2, <1>3, <1>4 DEF planned

\* A rule with a time to come reserves it.
LEMMA ComesReserves ==
  ASSUME NEW rw, Fits(rw), NEW t, Comes(rw, t)
  PROVE  reserves(rw)
<1> DEFINE s == rw.sched
           c == Cardinality(Between(s, rw.due, t))
<1>1. s \in Schedules /\ rw.due \in Nat /\ rw.done \in Nat /\ s.end \in Nat /\ s.runs \in Nat
  BY SchedulesAssumption DEF Fits
<1>2. /\ rw.due # NoTime /\ t \in Nat /\ rw.due <= t /\ Occurs(s, t)
      /\ s.end # NoTime => t <= s.end
      /\ s.runs # NoLimit => c <= s.runs - rw.done
  BY DEF Comes
<1>3. c \in Nat /\ c >= 1
  BY <1>1, <1>2, BetweenGrows
<1> HIDE DEF c
<1>4. ~schedule_expired(s, rw.due, rw.done)
  BY <1>1, <1>2, <1>3 DEF schedule_expired
<1> QED
  BY <1>2, <1>4 DEF reserves

\* What comes before a time to come, and is an instant not before the due time, comes too.
LEMMA ComesBefore ==
  ASSUME NEW rw, Fits(rw), NEW t, Comes(rw, t), NEW u \in Nat, rw.due <= u, u <= t,
         Occurs(rw.sched, u)
  PROVE  Comes(rw, u)
<1> DEFINE s == rw.sched
           c(x) == Cardinality(Between(s, rw.due, x))
<1>1. s \in Schedules /\ rw.due \in Nat /\ rw.done \in Nat /\ s.end \in Nat /\ s.runs \in Nat
  BY SchedulesAssumption DEF Fits
<1>2. /\ rw.due # NoTime /\ t \in Nat /\ rw.due <= t
      /\ s.end # NoTime => t <= s.end
      /\ s.runs # NoLimit => c(t) <= s.runs - rw.done
  BY DEF Comes
<1>3. c(t) \in Nat /\ c(u) \in Nat /\ c(u) <= c(t)
  BY <1>1, <1>2, BetweenGrows
<1>4. s.end # NoTime => u <= s.end
  BY <1>1, <1>2
<1>5. s.runs # NoLimit => c(u) <= s.runs - rw.done
  <2> DEFINE x == c(t)  y == c(u)
  <2>1. x \in Nat /\ y \in Nat /\ y <= x /\ (s.runs # NoLimit => x <= s.runs - rw.done)
    BY <1>2, <1>3
  <2> HIDE DEF x, y
  <2>2. s.runs # NoLimit => y <= s.runs - rw.done
    BY <1>1, <2>1
  <2> QED
    BY <2>2 DEF y
<1> QED
  BY <1>1, <1>2, <1>4, <1>5 DEF Comes

\* The due time is the first of them.
LEMMA DueComes ==
  ASSUME NEW rw, Fits(rw), NEW t, Comes(rw, t)
  PROVE  Comes(rw, rw.due)
<1>1. rw.due \in Nat /\ rw.due <= rw.due /\ rw.due <= t /\ Occurs(rw.sched, rw.due)
  BY DEF Fits, Comes
<1> QED
  BY <1>1, ComesBefore

\* Multiples of a positive number differ when their factors do.
LEMMA FactorsDiffer ==
  ASSUME NEW j \in Int, NEW k \in Int, NEW b \in Nat \ {0}, j * b = k * b
  PROVE  j = k
<1>1. CASE j < k
  <2>1. (j + 1) * b <= k * b
    BY <1>1, TimesGrows
  <2>2. (j + 1) * b = j * b + b /\ j * b \in Int
    OBVIOUS
  <2> QED
    BY <2>1, <2>2
<1>2. CASE k < j
  <2>1. (k + 1) * b <= j * b
    BY <1>2, TimesGrows
  <2>2. (k + 1) * b = k * b + b /\ k * b \in Int
    OBVIOUS
  <2> QED
    BY <2>1, <2>2
<1> QED
  BY <1>1, <1>2

\* Whole periods after an instant of an interval comes another.
LEMMA PeriodKept ==
  ASSUME NEW at \in Int, NEW due \in Int, NEW b \in Nat \ {0}, (due - at) % b = 0, NEW k \in Nat
  PROVE  ((due + k * b) - at) % b = 0
<1>1. PICK p \in Int : due - at = p * b
  <2>1. due - at \in Int
    OBVIOUS
  <2> QED
    BY <2>1, MultipleIs
<1>2. (p + k) * b = p * b + k * b /\ p * b \in Int /\ k * b \in Int
  OBVIOUS
<1>3. (due + k * b) - at = (p + k) * b /\ (due + k * b) - at \in Int
  BY <1>1, <1>2
<1> QED
  BY <1>3, MultipleIs

\* From one instant of an interval on, the instants are whole periods later.
LEMMA PeriodsLater ==
  ASSUME NEW at \in Int, NEW due \in Int, NEW t \in Int, NEW b \in Nat \ {0},
         (due - at) % b = 0, due <= t
  PROVE  (t - at) % b = 0 <=> \E k \in Nat : t = due + k * b
<1>1. PICK p \in Int : due - at = p * b
  <2>1. due - at \in Int
    OBVIOUS
  <2> QED
    BY <2>1, MultipleIs
<1>2. ASSUME (t - at) % b = 0
      PROVE  \E k \in Nat : t = due + k * b
  <2>1. t - at \in Int
    OBVIOUS
  <2>2. PICK q \in Int : t - at = q * b
    BY <1>2, <2>1, MultipleIs
  <2>3. (q - p) * b = q * b - p * b /\ p * b \in Int /\ q * b \in Int
    OBVIOUS
  <2>4. t = due + (q - p) * b
    BY <1>1, <2>2, <2>3
  <2>5. q - p >= 0
    <3>1. CASE q < p
      <4>1. (q + 1) * b <= p * b
        BY <3>1, TimesGrows
      <4>2. (q + 1) * b = q * b + b
        OBVIOUS
      <4> QED
        BY <1>1, <2>2, <2>3, <4>1, <4>2
    <3> QED
      BY <3>1
  <2> QED
    BY <2>4, <2>5
<1>3. ASSUME NEW k \in Nat, t = due + k * b
      PROVE  (t - at) % b = 0
  <2>1. ((due + k * b) - at) % b = 0
    BY ONLY ZenonT(60), at \in Int, due \in Int, b \in Nat \ {0}, (due - at) % b = 0, k \in Nat, PeriodKept
  <2> QED
    BY <1>3, <2>1
<1> QED
  BY <1>2, <1>3

\* As many instants have passed as periods, and one more.
LEMMA PeriodsCounted ==
  ASSUME NEW s \in Schedules, s.kind = "interval", NEW due \in Nat, Occurs(s, due),
         NEW k \in Nat
  PROVE  k + 1 <= Cardinality(Between(s, due, due + k * s.every))
<1> DEFINE b == s.every
           B == Between(s, due, due + k * b)
           f == [j \in 0..k |-> due + j * b]
<1>1. b \in Nat \ {0} /\ s.at \in Nat /\ (due - s.at) % b = 0 /\ due >= s.at
  BY SchedulesAssumption DEF Occurs
<1>2. ASSUME NEW j \in 0..k
      PROVE  due + j * b \in B
  <2>1. j * b \in Nat /\ k * b \in Nat /\ j * b <= k * b
    BY <1>1, TimesGrows
  <2> DEFINE t == due + j * b
  <2>2. t \in Int /\ due <= t /\ t <= due + k * b /\ t >= s.at
    BY <1>1, <2>1
  <2>3. (t - s.at) % b = 0
    <3> DEFINE at == s.at
    <3>1. at \in Int /\ due \in Int /\ b \in Nat \ {0} /\ (due - at) % b = 0 /\ j \in Nat
      BY <1>1
    <3> HIDE DEF b, at
    <3>2. ((due + j * b) - at) % b = 0
      BY ONLY <3>1, PeriodKept
    <3> QED
      BY <3>2 DEF at
  <2>4. Occurs(s, t)
    BY <2>2, <2>3 DEF Occurs
  <2>5. k * b \in Int
    BY <2>1
  <2> HIDE DEF t, b
  <2> QED
    BY <2>2, <2>4, <2>5 DEF Between, t
<1>3. IsFiniteSet(B)
  <2>1. due + k * b \in Int
    BY <1>1
  <2> QED
    BY <2>1, BetweenGrows
<1>4. f \in [0..k -> B]
  <2> HIDE DEF B
  <2> QED
    BY <1>2
<1>5. ASSUME NEW x \in 0..k, NEW y \in 0..k, f[x] = f[y]
      PROVE  x = y
  <2>1. due + x * b = due + y * b /\ x * b \in Int /\ y * b \in Int
    BY <1>1, <1>5
  <2>2. x * b = y * b
    <3> DEFINE u == x * b  v == y * b
    <3>1. due + u = due + v /\ u \in Int /\ v \in Int
      BY <2>1
    <3> HIDE DEF u, v
    <3>2. u = v
      BY <3>1
    <3> QED
      BY <3>2 DEF u, v
  <2> HIDE DEF b
  <2> QED
    BY <1>1, <2>2, FactorsDiffer
<1>6. Cardinality(0..k) <= Cardinality(B)
  <2> HIDE DEF B, f
  <2> QED
    BY ONLY <1>3, <1>4, <1>5, NoLarger
<1>7. Cardinality(0..k) = k + 1
  BY FS_Interval
<1> QED
  BY <1>6, <1>7

\* progression: the times a one-off or an interval still has are points of it.
LEMMA LinearPoints ==
  ASSUME NEW rw, Fits(rw), linear(rw), NEW t, Comes(rw, t)
  PROVE  /\ Sequence(progression(rw))
         /\ \E k \in Nat : /\ Bounded(progression(rw), k)
                           /\ t = progression(rw).first + k * progression(rw).step
<1> DEFINE s == rw.sched  due == rw.due  b == s.every
           p == progression(rw)
           c == Cardinality(Between(s, due, t))
<1>1. /\ s \in Schedules /\ due \in Nat /\ rw.done \in Nat /\ s.end \in Nat /\ s.runs \in Nat
      /\ b \in Nat \ {0} /\ s.at \in Nat
      /\ s.kind = "once" => s.end = NoTime /\ s.runs = NoLimit
  BY SchedulesAssumption DEF Fits
<1>2. /\ due # NoTime /\ Occurs(s, due) /\ t \in Nat /\ due <= t /\ Occurs(s, t)
      /\ s.end # NoTime => t <= s.end
      /\ s.runs # NoLimit => c <= s.runs - rw.done
  BY DEF Comes, Fits
<1>3. CASE s.kind = "once"
  <2>1. t = due
    BY <1>2, <1>3 DEF Occurs
  <2>3. p = Point(due)
    BY <1>1, <1>3 DEF progression
  <2>2. p.first = due /\ p.step = 0 /\ p.bounded /\ p.last = 0 /\ p \in Progressions
    BY <1>1, <2>3 DEF Point, Progressions
  <2> HIDE DEF p
  <2> QED
    BY <1>1, <2>1, <2>2 DEF p, Sequence, Bounded
<1>4. CASE s.kind = "interval"
  <2>1. PICK k \in Nat : t = due + k * b
    <3> DEFINE at == s.at
    <3>1. (due - at) % b = 0 /\ (t - at) % b = 0
      BY <1>2, <1>4 DEF Occurs
    <3>2. at \in Int /\ due \in Int /\ t \in Int /\ b \in Nat \ {0} /\ due <= t
      BY <1>1, <1>2
    <3> HIDE DEF s, due, b, at
    <3> QED
      BY ONLY <3>1, <3>2, PeriodsLater
  <2>2. s.runs # NoLimit => k <= s.runs - rw.done - 1
    <3>1. c \in Nat
      <4> HIDE DEF s
      <4> QED
        BY <1>1, <1>2, BetweenGrows
    <3>2. k + 1 <= c
      <4> HIDE DEF s, due
      <4> QED
        BY ONLY <1>1, <1>2, <1>4, <2>1, k \in Nat, PeriodsCounted DEF b, c
    <3> HIDE DEF c, s
    <3> QED
      BY <1>1, <1>2, <3>1, <3>2
  <2>3. s.end # NoTime => k <= (s.end - due) \div b
    <3>1. k * b \in Int /\ s.end - due \in Int
      BY <1>1
    <3>2. s.end # NoTime => k * b <= s.end - due
      BY <1>1, <1>2, <2>1, <3>1
    <3> HIDE DEF s, due, b
    <3> QED
      BY <1>1, <3>1, <3>2, FloorIs
  <2>4. (s.end - due) \div b \in Int
    BY <1>1
  <2>5. p = (IF s.runs # NoLimit THEN Until(due, b, s.runs - rw.done - 1)
               ELSE IF s.end # NoTime THEN Until(due, b, (s.end - due) \div b)
                 ELSE Endless(due, b))
    <3>1. s.end = NoTime \/ s.runs = NoLimit
      BY <1>1, SchedulesAssumption
    <3> QED
      BY <1>4, <3>1 DEF progression
  <2>6. /\ p \in Progressions /\ p.first = due /\ p.step = b
        /\ p.bounded => k <= p.last
    <3> HIDE DEF p
    <3> QED
      BY <1>1, <2>2, <2>3, <2>4, <2>5 DEF Until, Endless, Progressions
  <2> HIDE DEF p, b, due
  <2>7. Sequence(p)
    BY <1>1, <2>6 DEF Sequence
  <2>8. Bounded(p, k) /\ t = p.first + k * p.step
    BY <2>1, <2>6 DEF Bounded
  <2> QED
    BY <2>7, <2>8 DEF p
<1> QED
  BY <1>3, <1>4 DEF linear

\* No more instants have passed than periods, and one more.
LEMMA PeriodsAtMost ==
  ASSUME NEW s \in Schedules, s.kind = "interval", NEW due \in Nat, Occurs(s, due),
         NEW k \in Nat
  PROVE  Cardinality(Between(s, due, due + k * s.every)) <= k + 1
<1> DEFINE b == s.every  at == s.at
           B == Between(s, due, due + k * b)
           f == [u \in B |-> (u - due) \div b]
<1>1. b \in Nat \ {0} /\ at \in Nat /\ (due - at) % b = 0 /\ k * b \in Nat
  <2>1. b \in Nat \ {0} /\ at \in Nat /\ (due - at) % b = 0
    BY SchedulesAssumption DEF Occurs
  <2> QED
    BY <2>1
<1>2. ASSUME NEW u \in B
      PROVE  (u - due) \div b \in 0..k /\ u = due + ((u - due) \div b) * b
  <2>1. u \in Int /\ due <= u /\ u <= due + k * b /\ (u - at) % b = 0
    <3>1. u \in due..(due + k * b) /\ Occurs(s, u)
      BY DEF Between
    <3>2. (u - at) % b = 0
      BY <3>1 DEF Occurs
    <3> DEFINE m == k * b
    <3>3. m \in Nat
      BY <1>1
    <3> HIDE DEF m, b
    <3> QED
      BY <3>1, <3>2, <3>3
  <2>2. PICK i \in Nat : u = due + i * b
    <3> DEFINE d == due
    <3>1. at \in Int /\ d \in Int /\ b \in Nat \ {0} /\ (d - at) % b = 0
      BY <1>1
    <3>2. u \in Int /\ d <= u /\ (u - at) % b = 0
      BY <2>1
    <3> HIDE DEF b, at, d
    <3>3. \E i \in Nat : u = d + i * b
      BY ONLY <3>1, <3>2, PeriodsLater
    <3> QED
      BY <3>3 DEF d
  <2>3. (u - due) \div b = i
    <3> DEFINE n == u - due
    <3>1. n = (i * b) + 0 /\ n \in Int /\ i * b \in Int
      <4>1. i * b \in Int
        BY <1>1
      <4> HIDE DEF b
      <4> QED
        BY <2>1, <2>2, <4>1
    <3> HIDE DEF n, b
    <3>2. n \div b = i
      BY <1>1, <3>1, DivisionIs
    <3> QED
      BY <3>2 DEF n
  <2>4. i <= k
    <3>1. CASE k + 1 <= i
      <4> DEFINE x == i * b  y == k * b
      <4>1. (k + 1) * b <= x /\ (k + 1) * b = y + b
        <5> HIDE DEF b
        <5>1. (k + 1) * b = y + b
          BY <1>1
        <5> QED
          BY <1>1, <3>1, <5>1, TimesGrows
      <4>2. x \in Int /\ y \in Int /\ u = due + x /\ u <= due + y
        BY <1>1, <2>1, <2>2
      <4> HIDE DEF x, y, b
      <4> QED
        BY <1>1, <4>1, <4>2
    <3> QED
      BY <3>1
  <2> HIDE DEF b
  <2> QED
    BY <2>2, <2>3, <2>4
<1>3. f \in [B -> 0..k]
  <2> HIDE DEF B, b
  <2> QED
    BY <1>2
<1>4. ASSUME NEW x \in B, NEW y \in B, f[x] = f[y]
      PROVE  x = y
  <2> HIDE DEF B, b
  <2>1. (x - due) \div b = (y - due) \div b
    BY <1>4
  <2>2. x = due + ((x - due) \div b) * b /\ y = due + ((y - due) \div b) * b
    BY <1>2
  <2> QED
    BY ONLY <2>1, <2>2
<1>5. IsFiniteSet(0..k) /\ Cardinality(0..k) = k + 1
  BY FS_Interval
<1>6. Cardinality(B) <= Cardinality(0..k)
  <2> HIDE DEF B, f
  <2> QED
    BY ONLY <1>3, <1>4, <1>5, NoLarger
<1> QED
  BY <1>5, <1>6

\* progression: its points are times the one-off or the interval still has.
LEMMA PointsCome ==
  ASSUME NEW rw, Fits(rw), linear(rw), rw.due # NoTime
  PROVE  /\ Sequence(progression(rw))
         /\ \A k \in Nat : Bounded(progression(rw), k) =>
              Comes(rw, progression(rw).first + k * progression(rw).step)
<1> DEFINE s == rw.sched  due == rw.due  b == s.every
           p == progression(rw)
<1>1. /\ s \in Schedules /\ due \in Nat /\ rw.done \in Nat /\ s.end \in Nat /\ s.runs \in Nat
      /\ b \in Nat \ {0} /\ s.at \in Nat /\ Occurs(s, due) /\ due # NoTime
      /\ s.kind = "once" => s.end = NoTime /\ s.runs = NoLimit
      /\ s.end = NoTime \/ s.runs = NoLimit
  BY SchedulesAssumption DEF Fits
<1>2. CASE s.kind = "once"
  <2>1. p = Point(due)
    BY <1>1, <1>2 DEF progression
  <2>2. p.first = due /\ p.step = 0 /\ p.bounded /\ p.last = 0 /\ p \in Progressions
    BY <1>1, <2>1 DEF Point, Progressions
  <2> HIDE DEF p
  <2>3. Sequence(p)
    BY <2>2 DEF Sequence
  <2>4. Comes(rw, due)
    BY <1>1, <1>2 DEF Comes
  <2>5. ASSUME NEW k \in Nat, Bounded(p, k)
        PROVE  Comes(rw, p.first + k * p.step)
    <3>1. p.first + k * p.step = due
      BY <1>1, <2>2
    <3> QED
      BY <2>4, <3>1
  <2> QED
    BY <2>3, <2>5 DEF p
<1>3. CASE s.kind = "interval"
  <2>1. p = (IF s.runs # NoLimit THEN Until(due, b, s.runs - rw.done - 1)
               ELSE IF s.end # NoTime THEN Until(due, b, (s.end - due) \div b)
                 ELSE Endless(due, b))
    <3>1. s.end = NoTime \/ s.runs = NoLimit
      BY <1>1
    <3> QED
      BY <1>3, <3>1 DEF progression
  <2>2. (s.end - due) \div b \in Int
    BY <1>1
  <2>3. /\ p \in Progressions /\ p.first = due /\ p.step = b
        /\ \A k \in Nat : (p.bounded => k <= p.last) =>
             /\ s.runs # NoLimit => k <= s.runs - rw.done - 1
             /\ s.end # NoTime => k <= (s.end - due) \div b
    <3> DEFINE x == s.runs - rw.done - 1  y == (s.end - due) \div b
    <3>1. x \in Int /\ y \in Int
      BY <1>1, <2>2
    <3>2. p = (IF s.runs # NoLimit THEN Until(due, b, x)
                 ELSE IF s.end # NoTime THEN Until(due, b, y) ELSE Endless(due, b))
      BY <2>1
    <3> HIDE DEF x, y, p, b, due
    <3>3. /\ p \in Progressions /\ p.first = due /\ p.step = b
          /\ \A k \in Nat : (p.bounded => k <= p.last) =>
               /\ s.runs # NoLimit => k <= x
               /\ s.end # NoTime => k <= y
      BY <1>1, <3>1, <3>2 DEF Until, Endless, Progressions
    <3> QED
      BY <3>3 DEF x, y
  <2> HIDE DEF p
  <2>4. Sequence(p)
    BY <1>1, <2>3 DEF Sequence
  <2>5. ASSUME NEW k \in Nat, Bounded(p, k)
        PROVE  Comes(rw, p.first + k * p.step)
    <3> DEFINE m == k * b  t == due + m
    <3>1. /\ s.runs # NoLimit => k <= s.runs - rw.done - 1
          /\ s.end # NoTime => k <= (s.end - due) \div b
      BY <2>3, <2>5 DEF Bounded, Progressions
    <3>2. m \in Nat /\ t \in Nat /\ due <= t
      BY <1>1
    <3>3. Occurs(s, t)
      <4> DEFINE at == s.at
      <4>1. at \in Int /\ due \in Int /\ b \in Nat \ {0} /\ (due - at) % b = 0 /\ due >= at
        BY <1>1, <1>3 DEF Occurs
      <4>2. (t - at) % b = 0
        <5> HIDE DEF b, at, due
        <5> QED
          BY ONLY <4>1, k \in Nat, PeriodKept DEF t, m
      <4>3. t >= at
        <5> HIDE DEF t, due, at
        <5> QED
          BY <1>1, <3>2, <4>1
      <4> HIDE DEF t
      <4> QED
        BY <1>3, <4>2, <4>3 DEF Occurs
    <3>4. s.end # NoTime => t <= s.end
      <4> DEFINE n == s.end - due
      <4>1. n \in Int /\ (s.end # NoTime => k <= n \div b)
        BY <1>1, <3>1
      <4>2. s.end # NoTime => k * b <= n
        <5> HIDE DEF n, b, s
        <5>1. k <= n \div b <=> k * b <= n
          BY ONLY <1>1, <4>1, k \in Nat, FloorIs
        <5> QED
          BY <4>1, <5>1
      <4>3. s.end # NoTime => m <= n
        BY <4>2
      <4> HIDE DEF m
      <4> QED
        BY <1>1, <3>2, <4>3
    <3>5. s.runs # NoLimit => Cardinality(Between(s, due, t)) <= s.runs - rw.done
      <4> DEFINE c == Cardinality(Between(s, due, t))
      <4>1. c <= k + 1
        <5> HIDE DEF s, due
        <5> QED
          BY ONLY <1>1, <1>3, k \in Nat, PeriodsAtMost DEF c, t, m, b
      <4>2. c \in Nat
        <5> HIDE DEF t, s, due
        <5> QED
          BY <1>1, <3>2, BetweenGrows
      <4> HIDE DEF c, s
      <4>3. s.runs # NoLimit => c <= s.runs - rw.done
        BY <1>1, <3>1, <4>1, <4>2
      <4> QED
        BY <4>3 DEF c
    <3>6. Comes(rw, t)
      <4> HIDE DEF t
      <4> QED
        BY <1>1, <3>2, <3>3, <3>4, <3>5 DEF Comes
    <3> QED
      BY <2>3, <3>6
  <2> QED
    BY <2>4, <2>5 DEF p
<1> QED
  BY <1>2, <1>3 DEF linear

-----------------------------------------------------------------------------
(* Calendar rules *)

\* A cycle and a gap have a length.
LEMMA CycleIs == Cycle \in Nat \ {0} /\ Gap \in Nat \ {0}
BY SpacingAssumption

\* The instants of a calendar rule come back every cycle.
LEMMA DayAgain ==
  ASSUME NEW s, s.kind = "calendar", NEW t \in Int, NEW m \in Int
  PROVE  Occurs(s, t + m * Cycle) <=> Occurs(s, t)
<1> DEFINE c == Cycle  k == t \div c  r == t % c  n == t + m * c
<1>1. c \in Nat \ {0}
  BY CycleIs
<1>2. k \in Int /\ r \in Int /\ 0 <= r /\ r < c /\ t = (k * c) + r
  <2> HIDE DEF c
  <2> QED
    BY <1>1, RestIs
<1>3. n = ((k + m) * c) + r /\ n \in Int /\ k + m \in Int
  <2>1. m * c \in Int /\ k * c \in Int /\ (k + m) * c = k * c + m * c
    BY <1>1, <1>2
  <2> HIDE DEF c, k, r
  <2> QED
    BY <1>2, <2>1
<1>4. n % c = r
  <2> DEFINE q == k + m
  <2>1. n = (q * c) + r /\ q \in Int /\ n \in Int
    BY <1>3
  <2> HIDE DEF c, r, n, q
  <2> QED
    BY <1>1, <1>2, <2>1, DivisionIs
<1>5. n % Cycle = t % Cycle
  BY <1>4
<1>6. Occurs(s, n) <=> n % Cycle \in s.days
  BY DEF Occurs
<1>7. Occurs(s, t) <=> t % Cycle \in s.days
  BY DEF Occurs
<1> QED
  BY <1>5, <1>6, <1>7

\* Instants of one cycle, each moved by whole cycles, meet only when they are the same
\* instant moved as far.
LEMMA MovedApart ==
  ASSUME NEW start \in Int,
         NEW d \in start..(start + Cycle - 1), NEW e \in start..(start + Cycle - 1),
         NEW m \in Int, NEW n \in Int, d + m * Cycle = e + n * Cycle
  PROVE  d = e /\ m = n
<1> DEFINE c == Cycle  x == d - start  y == e - start  z == x + m * c
<1>1. c \in Nat \ {0}
  BY CycleIs
<1>2. x \in Int /\ 0 <= x /\ x < c /\ y \in Int /\ 0 <= y /\ y < c
  BY <1>1
<1>3. m * c \in Int /\ n * c \in Int
  BY <1>1
<1>4. z = (m * c) + x /\ z = (n * c) + y /\ z \in Int
  <2> DEFINE u == m * c  v == n * c
  <2>1. u \in Int /\ v \in Int /\ d + u = e + v /\ d \in Int /\ e \in Int
    BY <1>1, <1>3
  <2>2. z = x + u
    OBVIOUS
  <2> HIDE DEF u, v, z
  <2>3. z = u + x /\ z = v + y /\ z \in Int
    BY <2>1, <2>2
  <2> QED
    BY <2>3 DEF u, v
<1> HIDE DEF z
<1>5. z \div c = m /\ z % c = x
  <2> HIDE DEF c, x
  <2> QED
    BY ONLY <1>1, <1>2, <1>4, m \in Int, DivisionIs
<1>6. z \div c = n /\ z % c = y
  <2> HIDE DEF c, y
  <2> QED
    BY ONLY <1>1, <1>2, <1>4, n \in Int, DivisionIs
<1>7. x = y /\ m = n
  BY ONLY <1>5, <1>6
<1> QED
  BY <1>1, <1>7

\* Every time is some whole cycles after a time of the cycle that begins at start.
LEMMA IntoCycle ==
  ASSUME NEW start \in Int, NEW a \in Int, start <= a
  PROVE  \E k \in Nat, u \in start..(start + Cycle - 1) : a = u + k * Cycle
<1> DEFINE c == Cycle  n == a - start  q == n \div c  r == n % c  u == start + r
<1>1. c \in Nat \ {0} /\ n \in Nat
  BY CycleIs
<1>2. q \in Int /\ r \in Int /\ 0 <= r /\ r < c /\ n = (q * c) + r
  <2> HIDE DEF c, n
  <2> QED
    BY <1>1, RestIs
<1>3. q >= 0
  <2> HIDE DEF c, n, q
  <2>1. CASE q < 0
    <3>1. (q + 1) * c <= 0 * c
      BY <1>1, <1>2, <2>1, TimesGrows
    <3>2. (q + 1) * c = q * c + c /\ 0 * c = 0 /\ q * c \in Int
      BY <1>1, <1>2
    <3> HIDE DEF r
    <3> QED
      BY <1>1, <1>2, <3>1, <3>2
  <2> QED
    BY <1>2, <2>1
<1>4. u \in start..(start + Cycle - 1)
  BY <1>2, CycleIs
<1>5. a = u + q * c
  <2> DEFINE m == q * c
  <2>1. m \in Int /\ a - start = m + r /\ r \in Int
    BY <1>1, <1>2
  <2> HIDE DEF m, r
  <2>2. a = (start + r) + m
    BY <2>1
  <2> QED
    BY <2>2 DEF m
<1> HIDE DEF q, u
<1> QED
  BY <1>2, <1>3, <1>4, <1>5

\* In k cycles a calendar rule comes k times for every instant it has in one: no fewer times
\* than for some of them, no more than for all.
LEMMA CyclesCounted ==
  ASSUME NEW s, s.kind = "calendar", NEW start \in Int, NEW u \in start..(start + Cycle - 1),
         NEW due \in Int, due <= u, NEW k \in Nat,
         NEW D, D \subseteq Between(s, start, start + Cycle - 1)
  PROVE  /\ IsFiniteSet(D) /\ Cardinality(D) \in Nat
         /\ Cardinality(Between(s, due, u)) + k * Cardinality(D)
              <= Cardinality(Between(s, due, u + k * Cycle))
         /\ D = Between(s, start, start + Cycle - 1) =>
              Cardinality(Between(s, due, u + k * Cycle))
                <= Cardinality(Between(s, due, u)) + k * Cardinality(D)
<1> DEFINE c == Cycle
           a == u + k * c
           V == Between(s, due, u)
           W == Between(s, u + 1, a)
           Turns == 0..(k - 1)
           turn(j, d) == IF d <= u THEN j + 1 ELSE j
           place(j, d) == d + turn(j, d) * c
           f == [x \in Turns \X D |-> place(x[1], x[2])]
<1>1. c \in Nat \ {0} /\ u \in Int /\ k * c \in Nat /\ a \in Int /\ u <= a
  BY CycleIs
<1>2. ASSUME NEW d \in D
      PROVE  /\ d \in start..(start + Cycle - 1) /\ d \in Int /\ start <= d /\ d < start + c
             /\ Occurs(s, d)
  BY <1>1 DEF Between
<1>3. IsFiniteSet(D) /\ Cardinality(D) \in Nat
  <2>1. start + Cycle - 1 \in Int
    BY CycleIs
  <2> DEFINE B == Between(s, start, start + Cycle - 1)
  <2>2. IsFiniteSet(B)
    BY <2>1, BetweenGrows
  <2>3. D \in SUBSET B
    OBVIOUS
  <2> HIDE DEF B
  <2> QED
    BY ONLY <2>2, <2>3, FS_Subset, FS_CardinalityType
<1>4. ASSUME NEW j \in Turns, NEW d \in D
      PROVE  place(j, d) \in W
  <2> DEFINE m == turn(j, d)
             p == d + m * c
  <2>1. j \in Int /\ 0 <= j /\ j + 1 <= k /\ m \in Int /\ d \in Int
    BY <1>2
  <2>2. Occurs(s, p)
    <3> HIDE DEF m
    <3> QED
      BY <1>2, <2>1, DayAgain
  <2>3. u < p /\ p <= a /\ p \in Int
    <3>1. start <= u /\ u < start + c
      BY <1>1
    <3>2. CASE d <= u
      <4>1. m = j + 1
        BY <3>2
      <4>2. m * c = j * c + c /\ j * c \in Int /\ 0 * c <= j * c /\ m * c <= k * c
        <5>1. (j + 1) * c = j * c + c /\ j * c \in Int
          BY <1>1, <2>1
        <5> HIDE DEF c, m
        <5>2. 0 * c <= j * c /\ (j + 1) * c <= k * c
          BY <1>1, <2>1, TimesGrows
        <5> QED
          BY <4>1, <5>1, <5>2
      <4> DEFINE x == j * c  y == m * c  z == k * c
      <4>3. y = x + c /\ x \in Int /\ 0 <= x /\ y <= z /\ z \in Nat
        BY <1>1, <4>2
      <4>4. p = d + y /\ a = u + z
        OBVIOUS
      <4> HIDE DEF x, y, z, p, a, c, m
      <4> QED
        BY <1>1, <1>2, <3>1, <3>2, <4>3, <4>4
    <3>3. CASE d > u
      <4>1. m = j
        BY <2>1, <3>3
      <4>2. j * c \in Int /\ 0 * c <= j * c /\ (j + 1) * c <= k * c /\ (j + 1) * c = j * c + c
        <5>1. (j + 1) * c = j * c + c /\ j * c \in Int
          BY <1>1, <2>1
        <5> HIDE DEF c
        <5>2. 0 * c <= j * c /\ (j + 1) * c <= k * c
          BY <1>1, <2>1, TimesGrows
        <5> QED
          BY <5>1, <5>2
      <4> DEFINE x == j * c  z == k * c
      <4>3. x \in Int /\ 0 <= x /\ x + c <= z /\ z \in Nat
        BY <1>1, <4>2
      <4>4. p = d + x /\ a = u + z
        BY <4>1
      <4> HIDE DEF x, z, p, a, c, m
      <4> QED
        BY <1>1, <1>2, <3>1, <3>3, <4>3, <4>4
    <3> HIDE DEF p, a, c, m
    <3> QED
      BY <1>1, <2>1, <3>2, <3>3
  <2>4. place(j, d) = p
    OBVIOUS
  <2> HIDE DEF p, a
  <2>5. p \in W
    BY <1>1, <2>2, <2>3 DEF Between
  <2> QED
    BY <2>4, <2>5
<1>5. ASSUME NEW i \in Turns, NEW j \in Turns, NEW d \in D, NEW e \in D, place(i, d) = place(j, e)
      PROVE  i = j /\ d = e
  <2> DEFINE m == turn(i, d)  n == turn(j, e)
  <2>1. m \in Int /\ n \in Int /\ d + m * Cycle = e + n * Cycle
    BY <1>5
  <2>2. d = e /\ m = n
    <3> HIDE DEF m, n
    <3> QED
      BY ONLY <1>2, <2>1, d \in D, e \in D, start \in Int, MovedApart
  <2>3. i + 1 = j + 1 => i = j
    OBVIOUS
  <2> QED
    BY <2>2, <2>3
<1>6. Cardinality(Turns) = k /\ IsFiniteSet(Turns)
  <2>1. Cardinality(Turns) = IF 0 > k - 1 THEN 0 ELSE k - 1 - 0 + 1
    BY FS_Interval
  <2> QED
    BY <2>1, FS_Interval
<1>7. IsFiniteSet(W) /\ Cardinality(W) \in Nat /\ IsFiniteSet(V) /\ Cardinality(V) \in Nat
  <2>1. u + 1 \in Int
    BY <1>1
  <2> HIDE DEF a
  <2> QED
    BY <1>1, <2>1, BetweenGrows
<1> DEFINE S == Turns \X D
<1>8. /\ f \in [S -> W] /\ IsFiniteSet(S)
      /\ Cardinality(S) = k * Cardinality(D)
  <2>1. f \in [S -> W]
    <3> HIDE DEF place, W, Turns
    <3> QED
      BY <1>4
  <2>2. IsFiniteSet(S) /\ Cardinality(S) = k * Cardinality(D)
    <3> HIDE DEF Turns
    <3>1. IsFiniteSet(S) /\ Cardinality(S) = Cardinality(Turns) * Cardinality(D)
      BY <1>3, <1>6, FS_Product
    <3> QED
      BY <1>6, <3>1
  <2> QED
    BY <2>1, <2>2
<1>9. k * Cardinality(D) <= Cardinality(W)
  <2>1. ASSUME NEW x \in S, NEW y \in S, f[x] = f[y]
        PROVE  x = y
    <3> HIDE DEF place, W, Turns
    <3>1. x[1] \in Turns /\ x[2] \in D /\ y[1] \in Turns /\ y[2] \in D
          /\ x = <<x[1], x[2]>> /\ y = <<y[1], y[2]>>
      OBVIOUS
    <3>2. place(x[1], x[2]) = place(y[1], y[2])
      BY <2>1
    <3>3. x[1] = y[1] /\ x[2] = y[2]
      BY <1>5, <3>1, <3>2
    <3> QED
      BY <3>1, <3>3
  <2>2. Cardinality(S) <= Cardinality(W)
    <3> HIDE DEF S, W, f
    <3> QED
      BY ONLY <1>7, <1>8, <2>1, NoLarger
  <2> QED
    BY <1>8, <2>2
<1>10. ASSUME D = Between(s, start, start + Cycle - 1)
       PROVE  Cardinality(W) <= k * Cardinality(D)
  <2>1. ASSUME NEW t \in W
        PROVE  \E j \in Turns, d \in D : place(j, d) = t
    <3>1. t \in Int /\ u < t /\ t <= a /\ Occurs(s, t)
      <4> HIDE DEF a
      <4> QED
        BY <1>1 DEF Between
    <3>2. start <= u /\ u < start + c
      BY <1>1
    <3>3. PICK m \in Nat, d \in start..(start + Cycle - 1) : t = d + m * Cycle
      <4>1. start <= t
        BY <1>1, <3>1, <3>2
      <4> QED
        BY ONLY <3>1, <4>1, start \in Int, IntoCycle
    <3>4. d \in Int /\ start <= d /\ d < start + c /\ m \in Nat
      BY <1>1
    <3>5. d \in D
      <4>1. Occurs(s, d)
        BY <3>1, <3>3, <3>4, DayAgain
      <4> QED
        BY <1>10, <4>1 DEF Between
    <3> DEFINE x == m * c  y == k * c
    <3>6. x \in Int /\ y \in Int /\ t = d + x /\ a = u + y
      BY <1>1, <3>3
    <3>7. CASE d <= u
      <4>1. m # 0
        <5>1. m = 0 => x = 0
          BY <1>1
        <5> HIDE DEF x, y, a
        <5> QED
          BY <3>1, <3>4, <3>6, <3>7, <5>1
      <4>2. m <= k
        <5>1. CASE k + 1 <= m
          <6>1. (k + 1) * c <= x /\ (k + 1) * c = y + c
            <7>1. (k + 1) * c = y + c
              BY <1>1
            <7> HIDE DEF c
            <7> QED
              BY <1>1, <5>1, <7>1, TimesGrows
          <6> HIDE DEF x, y, a, c
          <6> QED
            BY <1>1, <3>1, <3>2, <3>4, <3>6, <6>1
        <5> QED
          BY <5>1
      <4>3. m - 1 \in Turns /\ (m - 1) + 1 = m
        BY <3>4, <4>1, <4>2
      <4>4. place(m - 1, d) = t
        <5>1. turn(m - 1, d) = m
          BY <3>7, <4>3
        <5> QED
          BY <3>3, <5>1
      <4> HIDE DEF place, Turns
      <4> QED
        BY <3>5, <4>3, <4>4
    <3>8. CASE u < d
      <4>1. m < k
        <5>1. CASE k <= m
          <6>1. y <= x
            <7> HIDE DEF c
            <7> QED
              BY <1>1, <5>1, TimesGrows
          <6> HIDE DEF x, y, a, c
          <6> QED
            BY <1>1, <3>1, <3>4, <3>6, <3>8, <6>1
        <5> QED
          BY <5>1
      <4>2. m \in Turns
        BY <3>4, <4>1
      <4>3. place(m, d) = t
        <5>1. turn(m, d) = m
          BY <1>1, <3>4, <3>8
        <5> QED
          BY <3>3, <5>1
      <4> HIDE DEF place, Turns
      <4> QED
        BY <3>5, <4>2, <4>3
    <3> QED
      BY <1>1, <3>4, <3>7, <3>8
  <2>2. f \in Surjection(S, W)
    <3>1. ASSUME NEW t \in W PROVE \E x \in S : f[x] = t
      <4>1. PICK j \in Turns, d \in D : place(j, d) = t
        BY <2>1
      <4> HIDE DEF place, Turns, W
      <4>2. <<j, d>> \in S /\ f[<<j, d>>] = t
        BY <4>1
      <4> QED
        BY <4>2
    <3> HIDE DEF S, W, f
    <3> QED
      BY <1>8, <3>1 DEF Surjection
  <2>3. Cardinality(W) <= Cardinality(S)
    <3> HIDE DEF S, W, f
    <3> QED
      BY ONLY <1>8, <2>2, FS_Surjection
  <2> QED
    BY <1>8, <2>3
<1>11. Cardinality(Between(s, due, a)) = Cardinality(V) + Cardinality(W)
  <2>1. Between(s, due, a) = V \cup W
    <3> HIDE DEF a
    <3> QED
      BY <1>1 DEF Between
  <2>2. V \cap W = {}
    <3> HIDE DEF a
    <3> QED
      BY <1>1 DEF Between
  <2> HIDE DEF V, W
  <2>3. Cardinality(V \cup W) = Cardinality(V) + Cardinality(W) - Cardinality(V \cap W)
    BY <1>7, FS_Union
  <2>4. Cardinality(V \cap W) = 0
    BY <2>2, FS_EmptySet
  <2>5. Cardinality(V \cup W) = Cardinality(V) + Cardinality(W)
    BY <1>7, <2>3, <2>4
  <2> HIDE DEF a
  <2> QED
    BY ONLY <2>1, <2>5
<1>12. k * Cardinality(D) \in Int
  BY <1>3
<1> DEFINE v == Cardinality(V)  w == Cardinality(W)  x == k * Cardinality(D)
           y == Cardinality(Between(s, due, a))
<1>13. v \in Nat /\ w \in Nat /\ x \in Int /\ x <= w /\ y = v + w
  BY <1>7, <1>9, <1>11, <1>12
<1>14. v + x <= y
  <2> HIDE DEF v, w, x, y
  <2> QED
    BY <1>13
<1>15. D = Between(s, start, start + Cycle - 1) => y <= v + x
  <2>1. D = Between(s, start, start + Cycle - 1) => w <= x
    BY <1>10
  <2> HIDE DEF v, w, x, y
  <2> QED
    BY <1>13, <2>1
<1> QED
  BY <1>3, <1>14, <1>15

\* A calendar rule that comes at a time comes whole cycles earlier as well, after its due time.
LEMMA ComesEarlier ==
  ASSUME NEW rw, Fits(rw), rw.sched.kind = "calendar", NEW u \in Int, NEW k \in Nat,
         Comes(rw, u + k * Cycle), rw.due <= u
  PROVE  Comes(rw, u)
<1> DEFINE a == u + k * Cycle
<1>1. rw.due \in Nat /\ k * Cycle \in Nat
  BY CycleIs DEF Fits
<1>2. Occurs(rw.sched, a)
  BY DEF Comes
<1>3. Occurs(rw.sched, u)
  <2> DEFINE s == rw.sched
  <2>1. s.kind = "calendar" /\ Occurs(s, u + k * Cycle)
    BY <1>2
  <2> HIDE DEF s
  <2>2. Occurs(s, u)
    BY <2>1, DayAgain
  <2> QED
    BY <2>2 DEF s
<1>4. u \in Nat /\ u <= a
  BY <1>1
<1> QED
  BY <1>3, <1>4, ComesBefore

\* calendar_times lists every time before its end, with its number among the runs to come.
LEMMA TimeListed ==
  ASSUME NEW rw, Fits(rw), NEW t, Comes(rw, t), NEW until \in Int, t < until
  PROVE  \E item \in calendar_times(rw, until) :
           /\ item.at = t
           /\ rw.sched.runs # NoLimit =>
                item.ordinal = Cardinality(Between(rw.sched, rw.due, t))
<1> DEFINE s == rw.sched
           all == {u \in rw.due..(until - 1) : Occurs(s, u) /\ (s.end # NoTime => u <= s.end)}
           number(v) == Cardinality({u \in all : u <= v})
           item == [at |-> t, ordinal |-> number(t)]
<1>1. /\ s \in Schedules /\ rw.due \in Nat /\ rw.done \in Nat
      /\ s.end = NoTime \/ s.runs = NoLimit
  BY SchedulesAssumption DEF Fits
<1>2. /\ t \in Nat /\ rw.due <= t /\ Occurs(s, t)
      /\ s.end # NoTime => t <= s.end
      /\ s.runs # NoLimit => Cardinality(Between(s, rw.due, t)) <= s.runs - rw.done
  BY DEF Comes
<1>3. t \in all
  BY <1>1, <1>2
<1>4. s.runs # NoLimit => {u \in all : u <= t} = Between(s, rw.due, t)
  BY <1>1, <1>2 DEF Between
<1>5. s.runs # NoLimit => number(t) = Cardinality(Between(s, rw.due, t))
  BY <1>4
<1>6. calendar_times(rw, until)
        = {[at |-> v, ordinal |-> number(v)] : v \in
             {w \in all : s.runs # NoLimit => number(w) <= s.runs - rw.done}}
  BY DEF calendar_times
<1>7. item \in calendar_times(rw, until)
  <2> HIDE DEF number, all
  <2> QED
    BY <1>2, <1>3, <1>5, <1>6
<1>8. item.at = t /\ item.ordinal = number(t)
  OBVIOUS
<1> HIDE DEF item, number
<1> QED
  BY <1>5, <1>7, <1>8

\* What it lists are instants of the rule, each once.
LEMMA ListedTimes ==
  ASSUME NEW rw, Fits(rw), NEW until \in Int
  PROVE  /\ \A item \in calendar_times(rw, until) :
              item.at \in Between(rw.sched, rw.due, until - 1)
         /\ \A x, y \in calendar_times(rw, until) : x.at = y.at => x = y
<1> DEFINE s == rw.sched
           all == {u \in rw.due..(until - 1) : Occurs(s, u) /\ (s.end # NoTime => u <= s.end)}
           number(v) == Cardinality({u \in all : u <= v})
           some == {w \in all : s.runs # NoLimit => number(w) <= s.runs - rw.done}
<1>1. calendar_times(rw, until) = {[at |-> v, ordinal |-> number(v)] : v \in some}
  BY DEF calendar_times
<1>2. some \subseteq Between(s, rw.due, until - 1)
  BY DEF Between
<1> HIDE DEF number, some
<1>3. ASSUME NEW item \in calendar_times(rw, until)
      PROVE  /\ item.at \in Between(s, rw.due, until - 1)
             /\ item = [at |-> item.at, ordinal |-> number(item.at)]
  BY <1>1, <1>2
<1>4. ASSUME NEW x \in calendar_times(rw, until), NEW y \in calendar_times(rw, until), x.at = y.at
      PROVE  x = y
  <2>1. x = [at |-> x.at, ordinal |-> number(x.at)] /\ y = [at |-> y.at, ordinal |-> number(y.at)]
    BY <1>3
  <2> QED
    BY <1>4, <2>1
<1> QED
  BY <1>3, <1>4

\* calendar_times lists times the rule still has.
LEMMA ListedComes ==
  ASSUME NEW rw, Fits(rw), rw.due # NoTime, NEW until \in Int,
         NEW item \in calendar_times(rw, until)
  PROVE  /\ Comes(rw, item.at) /\ item.at < until
         /\ rw.sched.runs # NoLimit =>
              item.ordinal = Cardinality(Between(rw.sched, rw.due, item.at))
<1> DEFINE s == rw.sched
           all == {u \in rw.due..(until - 1) : Occurs(s, u) /\ (s.end # NoTime => u <= s.end)}
           number(v) == Cardinality({u \in all : u <= v})
<1>1. /\ s \in Schedules /\ rw.due \in Nat /\ rw.done \in Nat
      /\ s.end = NoTime \/ s.runs = NoLimit
  BY SchedulesAssumption DEF Fits
<1>2. calendar_times(rw, until)
        = {[at |-> v, ordinal |-> number(v)] : v \in
             {w \in all : s.runs # NoLimit => number(w) <= s.runs - rw.done}}
  BY DEF calendar_times
<1>3. PICK t \in all : /\ item = [at |-> t, ordinal |-> number(t)]
                       /\ s.runs # NoLimit => number(t) <= s.runs - rw.done
  <2> HIDE DEF number, all
  <2> QED
    BY <1>2
<1>4. t \in Nat /\ rw.due <= t /\ t < until /\ Occurs(s, t) /\ (s.end # NoTime => t <= s.end)
  BY <1>1
<1>5. s.runs # NoLimit => {u \in all : u <= t} = Between(s, rw.due, t)
  BY <1>1, <1>4 DEF Between
<1>6. s.runs # NoLimit => number(t) = Cardinality(Between(s, rw.due, t))
  BY <1>5
<1>7. item.at = t /\ item.ordinal = number(t)
  <2> HIDE DEF number
  <2> QED
    BY <1>3
<1> HIDE DEF number
<1>8. Comes(rw, t)
  BY <1>3, <1>4, <1>6 DEF Comes
<1> QED
  BY <1>4, <1>6, <1>7, <1>8

\* The instants from the first full cycle on that calendar_times lists.
OfCycle(rw, start, stop) == {x \in calendar_times(rw, stop) : x.at >= start}

\* They are instants of one cycle, finitely many, each listed once.
CycleListed(rw, start, cycle) ==
  /\ {x.at : x \in cycle} \subseteq Between(rw.sched, start, start + Cycle - 1)
  /\ \A x \in cycle : x.at \in start..(start + Cycle - 1) /\ x.at \in Int /\ rw.due <= x.at
  /\ IsFiniteSet(cycle) /\ Cardinality(cycle) \in Nat
  /\ Cardinality(cycle) = Cardinality({x.at : x \in cycle})
  /\ cycle # {} => Cardinality(cycle) # 0

\* Which holds of every cycle the code looks at.
LEMMA CycleItems ==
  ASSUME NEW rw, Fits(rw), NEW start \in Int, rw.due <= start,
         NEW stop \in Int, stop <= start + Cycle
  PROVE  CycleListed(rw, start, OfCycle(rw, start, stop))
<1> DEFINE s == rw.sched  due == rw.due  cycle == OfCycle(rw, start, stop)
           D == {x.at : x \in cycle}
           B == Between(s, start, start + Cycle - 1)
           per == Cardinality(cycle)
           f == [x \in cycle |-> x.at]
<1>1. due \in Nat
  BY DEF Fits
<1>2. ASSUME NEW x \in cycle
      PROVE  /\ x.at \in B
             /\ x.at \in start..(start + Cycle - 1) /\ x.at \in Int /\ due <= x.at
  <2>1. x \in calendar_times(rw, stop) /\ x.at >= start
    BY DEF OfCycle
  <2>2. x.at \in Between(s, due, stop - 1)
    BY <2>1, ListedTimes
  <2> QED
    BY <1>1, <2>1, <2>2, CycleIs DEF Between
<1>3. ASSUME NEW x \in cycle, NEW y \in cycle, x.at = y.at
      PROVE  x = y
  BY <1>3, ListedTimes DEF OfCycle
<1> HIDE DEF cycle
<1>4. D \in SUBSET B
  <2> HIDE DEF B
  <2> QED
    BY <1>2
<1>5. IsFiniteSet(D)
  <2>1. start + Cycle - 1 \in Int
    BY CycleIs
  <2>2. IsFiniteSet(B)
    BY <2>1, BetweenGrows
  <2> HIDE DEF B, D
  <2> QED
    BY ONLY <1>4, <2>2, FS_Subset
<1>6. f \in [cycle -> D]
  OBVIOUS
<1>7. ASSUME NEW x \in cycle, NEW y \in cycle, f[x] = f[y]
      PROVE  x = y
  BY <1>3, <1>7
<1>8. IsFiniteSet(cycle) /\ per \in Nat /\ per <= Cardinality(D) /\ Cardinality(D) \in Nat
  <2> HIDE DEF f, D
  <2> QED
    BY ONLY <1>5, <1>6, <1>7, NoLarger
<1>9. Cardinality(D) <= per
  <2>1. \A t \in D : \E x \in cycle : f[x] = t
    OBVIOUS
  <2> HIDE DEF f, D
  <2>2. f \in Surjection(cycle, D)
    BY <1>6, <2>1 DEF Surjection
  <2> QED
    BY ONLY <1>8, <2>2, FS_Surjection
<1>10. per = Cardinality(D)
  <2> HIDE DEF per, D
  <2> QED
    BY <1>8, <1>9
<1>11. cycle # {} => per # 0
  BY ONLY <1>8, FS_EmptySet
<1> QED
  BY <1>2, <1>4, <1>8, <1>10, <1>11 DEF CycleListed, cycle

\* repeated: an instant of the full cycle, repeated as often as the rule still runs, reaches
\* every later time of the rule on the same day of the cycle.
LEMMA RepeatedReaches ==
  ASSUME NEW rw, Fits(rw), rw.sched.kind = "calendar",
         NEW start \in Int, rw.due <= start, NEW stop \in Int, stop <= start + Cycle,
         NEW cycle, cycle = OfCycle(rw, start, stop),
         NEW item \in cycle, NEW k \in Nat,
         Comes(rw, item.at + k * Cycle),
         rw.sched.runs # NoLimit =>
           item.ordinal = Cardinality(Between(rw.sched, rw.due, item.at)),
         NEW q, q = repeated(rw, item, Cardinality(cycle))
  PROVE  Sequence(q) /\ Bounded(q, k) /\ q.first = item.at /\ q.step = Cycle
<1> DEFINE s == rw.sched  due == rw.due  u == item.at
           a == u + k * Cycle
           D == {x.at : x \in cycle}
           per == Cardinality(cycle)
           v == Cardinality(Between(s, due, u))  w == Cardinality(Between(s, due, a))
<1>1. /\ s \in Schedules /\ due \in Nat /\ rw.done \in Nat /\ s.end \in Nat /\ s.runs \in Nat
      /\ s.kind = "calendar" /\ (s.end = NoTime \/ s.runs = NoLimit)
  BY SchedulesAssumption DEF Fits
<1>2. /\ due # NoTime /\ a \in Nat
      /\ s.end # NoTime => a <= s.end
      /\ s.runs # NoLimit => w <= s.runs - rw.done
  BY DEF Comes
<1>3. CycleListed(rw, start, cycle)
  BY CycleItems
<1>4. cycle # {}
  OBVIOUS
<1>5. u \in start..(start + Cycle - 1) /\ u \in Int /\ due <= u
  BY <1>3 DEF CycleListed
<1>6. D \subseteq Between(s, start, start + Cycle - 1)
  BY <1>3 DEF CycleListed
<1>7. IsFiniteSet(D) /\ Cardinality(D) \in Nat /\ v + k * Cardinality(D) <= w
  <2> HIDE DEF D, s, due, u
  <2> QED
    BY <1>1, <1>5, <1>6, CyclesCounted
<1>8. per \in Nat /\ per <= Cardinality(D)
  <2>1. per \in Nat /\ per = Cardinality(D)
    BY <1>3 DEF CycleListed
  <2> HIDE DEF per, D
  <2> QED
    BY <2>1
<1>9. per # 0
  BY <1>3, <1>4 DEF CycleListed
<1>10. v \in Nat /\ w \in Nat
  <2> HIDE DEF a, s, due, u
  <2> QED
    BY <1>1, <1>2, <1>5, BetweenGrows
<1>11. ASSUME s.runs # NoLimit
       PROVE  /\ repeats_by_runs(s.runs - rw.done, item.ordinal, per) \in Int
              /\ k <= repeats_by_runs(s.runs - rw.done, item.ordinal, per)
  <2> DEFINE left == s.runs - rw.done
  <2>1. item.ordinal = v /\ w <= left /\ left \in Int
    BY <1>1, <1>2, <1>11
  <2>2. k * per <= k * Cardinality(D) /\ k * Cardinality(D) \in Int /\ k * per \in Int
    <3>1. per * k <= Cardinality(D) * k
      <4> HIDE DEF per, D
      <4> QED
        BY <1>7, <1>8, TimesGrows
    <3>2. per * k = k * per /\ Cardinality(D) * k = k * Cardinality(D)
          /\ k * Cardinality(D) \in Int /\ k * per \in Int
      BY <1>7, <1>8
    <3> QED
      BY <3>1, <3>2
  <2>3. k * per <= left - v /\ left - v \in Int
    <3> DEFINE x == k * per  y == k * Cardinality(D)
    <3>1. x \in Int /\ y \in Int /\ x <= y /\ v + y <= w /\ v \in Nat /\ w \in Nat /\ left \in Int
          /\ w <= left
      BY <1>7, <1>10, <2>1, <2>2
    <3> HIDE DEF x, y, v, w, left
    <3>2. x <= left - v /\ left - v \in Int
      BY <3>1
    <3> QED
      BY <3>2 DEF x
  <2>4. (left - v) \div per \in Int /\ k <= (left - v) \div per
    <3> DEFINE n == left - v
    <3>1. n \in Int /\ k * per <= n /\ per \in Nat \ {0}
      BY <1>8, <1>9, <2>3
    <3> HIDE DEF n, per
    <3>2. n \div per \in Int /\ k <= n \div per
      BY <3>1, FloorIs
    <3> QED
      BY <3>2 DEF n
  <2> QED
    BY <2>1, <2>4 DEF repeats_by_runs
<1>12. (s.end - u) \div Cycle \in Int /\ (s.end # NoTime => k <= (s.end - u) \div Cycle)
  <2> DEFINE n == s.end - u  c == Cycle  m == k * c
  <2>1. n \in Int /\ c \in Nat \ {0} /\ m \in Int
    BY <1>1, <1>5, CycleIs
  <2>2. s.end # NoTime => m <= n
    <3>1. a = u + m
      OBVIOUS
    <3> HIDE DEF a, m
    <3> QED
      BY <1>1, <1>2, <1>5, <2>1, <3>1
  <2> HIDE DEF n, c
  <2>3. n \div c \in Int /\ (s.end # NoTime => k <= n \div c)
    BY <2>1, <2>2, FloorIs
  <2> QED
    BY <2>3 DEF n, c
<1>13. q = (IF s.runs # NoLimit
              THEN Until(u, Cycle, repeats_by_runs(s.runs - rw.done, item.ordinal, per))
              ELSE IF s.end # NoTime THEN Until(u, Cycle, (s.end - u) \div Cycle)
                ELSE Endless(u, Cycle))
  <2>1. s.end = NoTime \/ s.runs = NoLimit
    BY <1>1
  <2> QED
    BY <2>1 DEF repeated
<1>14. /\ q \in Progressions /\ q.first = u /\ q.step = Cycle
       /\ q.bounded => k <= q.last
  <2> DEFINE n == repeats_by_runs(s.runs - rw.done, item.ordinal, per)  e == (s.end - u) \div Cycle
  <2>1. /\ e \in Int /\ u \in Int /\ Cycle \in Nat
        /\ s.runs # NoLimit => n \in Int /\ k <= n
        /\ s.end # NoTime => k <= e
    BY <1>5, <1>11, <1>12, CycleIs
  <2>2. q = (IF s.runs # NoLimit THEN Until(u, Cycle, n)
               ELSE IF s.end # NoTime THEN Until(u, Cycle, e) ELSE Endless(u, Cycle))
    BY <1>13
  <2> HIDE DEF n, e, u, s
  <2> QED
    BY ONLY <2>1, <2>2 DEF Until, Endless, Progressions
<1>15. Sequence(q) /\ Bounded(q, k)
  BY <1>14, CycleIs DEF Sequence, Bounded
<1> QED
  BY <1>14, <1>15

\* The first full cycle begins after the due time.
LEMMA CycleStartsLater ==
  ASSUME NEW first \in Int
  PROVE  cycle_start(first) \in Int /\ first < cycle_start(first)
<1> DEFINE q == first \div Cycle
<1>1. q \in Int /\ first < q * Cycle + Cycle
  BY CycleIs, FloorDivision
<1> HIDE DEF q
<1>2. (q + 1) * Cycle = q * Cycle + Cycle /\ q * Cycle \in Int
  BY <1>1, CycleIs
<1> QED
  BY <1>1, <1>2, CycleIs DEF cycle_start, q

\* The points of a progression end with its last.
LEMMA LastPoint ==
  ASSUME NEW p, Sequence(p), NEW k \in Nat, Bounded(p, k), p.bounded
  PROVE  /\ p.first \in Int /\ p.step \in Nat /\ p.last \in Int
         /\ p.first + k * p.step <= p.first + p.step * p.last
         /\ p.first + k * p.step \in Int /\ p.first + p.step * p.last \in Int
<1>1. p.first \in Int /\ p.step \in Nat /\ p.last \in Int /\ k <= p.last
  BY DEF Sequence, Progressions, Bounded
<1> DEFINE f == p.first  b == p.step  l == p.last
<1>2. f \in Int /\ b \in Nat /\ l \in Int /\ k <= l
  BY <1>1
<1> HIDE DEF f, b, l
<1>3. k * b <= l * b /\ l * b = b * l /\ k * b \in Int /\ b * l \in Int
  BY <1>2, TimesGrows
<1>4. f + k * b <= f + b * l /\ f + k * b \in Int /\ f + b * l \in Int
  BY <1>2, <1>3
<1> QED
  BY <1>1, <1>4 DEF f, b, l

\* calendar_interval_conflict misses no time of a calendar rule that comes too close to a
\* point of a progression: before the first full cycle it looks at the time itself, after
\* it at the day of the cycle, repeated.
LEMMA CalendarMeets ==
  ASSUME NEW rw, Fits(rw), rw.sched.kind = "calendar", NEW a, Comes(rw, a),
         NEW p, Sequence(p), NEW j \in Nat, Bounded(p, j),
         close(a, p.first + j * p.step)
  PROVE  calendar_interval_conflict(rw, p)
<1> DEFINE due == rw.due
           start == cycle_start(due)
           full == start + Cycle
           far == p.first + p.step * p.last + Gap
           stop == IF p.bounded THEN Least(full, far) ELSE full
           times == calendar_times(rw, stop)
           cycle == OfCycle(rw, start, stop)
           near == p.first + j * p.step
<1>1. /\ due \in Nat /\ a \in Nat /\ due <= a
      /\ start \in Int /\ due < start /\ full \in Int /\ start < full
  BY CycleStartsLater, CycleIs DEF Fits, Comes
<1>2. near \in Int /\ p.first \in Int /\ p.step \in Nat /\ p.bounded \in BOOLEAN
  <2>1. p.first \in Int /\ p.step \in Nat /\ p.bounded \in BOOLEAN
    BY DEF Sequence, Progressions
  <2> QED
    BY <2>1
<1>3. p.bounded => far \in Int /\ a < far
  <2> SUFFICES ASSUME p.bounded PROVE far \in Int /\ a < far
    OBVIOUS
  <2> DEFINE end == p.first + p.step * p.last
  <2>1. near <= end /\ end \in Int /\ far = end + Gap
    BY LastPoint
  <2> HIDE DEF near, end, far
  <2> QED
    BY <1>1, <1>2, <2>1, CycleIs DEF close, near
<1>4. stop \in Int /\ stop <= full /\ (a < full => a < stop)
  <2> HIDE DEF full, far
  <2> QED
    BY <1>1, <1>2, <1>3 DEF Least
<1>5. ASSUME NEW u \in Int, u < full, u <= a
      PROVE  u < stop
  <2> HIDE DEF full, far
  <2> QED
    BY <1>1, <1>2, <1>3, <1>5 DEF Least
<1>6. calendar_interval_conflict(rw, p)
        <=> \/ \E item \in times \ cycle : progressions_conflict(Point(item.at), p)
            \/ \E item \in cycle : progressions_conflict(repeated(rw, item, Cardinality(cycle)), p)
  BY DEF calendar_interval_conflict, OfCycle
<1>7. CASE a < start
  <2>1. a < stop
    BY <1>1, <1>5, <1>7
  <2>2. PICK item \in times : item.at = a
    <3> HIDE DEF stop
    <3> QED
      BY <1>4, <2>1, TimeListed
  <2>3. item \notin cycle
    BY <1>1, <1>7, <2>2 DEF OfCycle
  <2> DEFINE o == Point(a)
  <2>4. Sequence(o) /\ Bounded(o, 0) /\ o.first + 0 * o.step = a
    BY <1>1 DEF Sequence, Progressions, Bounded, Point
  <2>5. Meet(o, p)
    <3> HIDE DEF o
    <3> QED
      BY <2>4 DEF Meet
  <2>6. progressions_conflict(o, p)
    <3> HIDE DEF o
    <3> QED
      BY <2>4, <2>5, ProgressionsExact
  <2> HIDE DEF times, cycle
  <2> QED
    BY <1>6, <2>2, <2>3, <2>6
<1>8. CASE start <= a
  <2>1. PICK k \in Nat, u \in start..(start + Cycle - 1) : a = u + k * Cycle
    <3>1. start \in Int /\ a \in Int /\ start <= a
      BY <1>1, <1>8
    <3> HIDE DEF start
    <3> QED
      BY ONLY <3>1, IntoCycle
  <2>2. u \in Int /\ start <= u /\ u < full /\ due <= u /\ u <= a /\ u < stop
    <3>1. u \in Int /\ start <= u /\ u < full
      BY <1>1, CycleIs
    <3>2. k * Cycle \in Nat
      BY CycleIs
    <3>3. u <= a
      BY <2>1, <3>1, <3>2
    <3> HIDE DEF start, full, stop
    <3> QED
      BY <1>1, <1>5, <3>1, <3>3
  <2>3. Comes(rw, u + k * Cycle)
    BY <2>1
  <2>4. Comes(rw, u)
    <3> HIDE DEF start, full, stop
    <3> QED
      BY <2>2, <2>3, ComesEarlier
  <2>5. PICK item \in times : /\ item.at = u
                              /\ rw.sched.runs # NoLimit =>
                                   item.ordinal = Cardinality(Between(rw.sched, rw.due, u))
    <3> HIDE DEF start, full, stop
    <3> QED
      BY <1>4, <2>2, <2>4, TimeListed
  <2>6. item \in cycle
    BY <2>2, <2>5 DEF OfCycle
  <2> DEFINE q == repeated(rw, item, Cardinality(cycle))
  <2>7. Sequence(q) /\ Bounded(q, k) /\ q.first = u /\ q.step = Cycle
    <3>1. /\ start \in Int /\ rw.due <= start /\ stop \in Int /\ stop <= start + Cycle
          /\ cycle = OfCycle(rw, start, stop)
          /\ Comes(rw, item.at + k * Cycle) /\ item.at = u
          /\ rw.sched.runs # NoLimit =>
               item.ordinal = Cardinality(Between(rw.sched, rw.due, item.at))
      BY <1>1, <1>4, <2>3, <2>5
    <3> DEFINE q0 == repeated(rw, item, Cardinality(cycle))
    <3>2. q0 = repeated(rw, item, Cardinality(cycle))
      OBVIOUS
    <3> HIDE DEF start, stop, cycle, q0
    <3>3. Sequence(q0) /\ Bounded(q0, k) /\ q0.first = item.at /\ q0.step = Cycle
      BY <2>6, <3>1, <3>2, RepeatedReaches
    <3> QED
      BY <3>1, <3>3 DEF q0
  <2>8. Meet(q, p)
    <3>1. close(q.first + k * q.step, near)
      BY <2>1, <2>7
    <3> HIDE DEF q
    <3> QED
      BY <2>7, <3>1 DEF Meet
  <2>9. progressions_conflict(q, p)
    <3> HIDE DEF q
    <3> QED
      BY <2>7, <2>8, ProgressionsExact
  <2> HIDE DEF times, cycle
  <2> QED
    BY <1>6, <2>6, <2>9
<1> QED
  BY <1>1, <1>7, <1>8

\* Two calendar rules that ever come too close do so before the end of the first full cycle
\* of both: the pair moved back by whole cycles, or, when one of the two had not begun yet,
\* its first time.
LEMMA CloseEarly ==
  ASSUME NEW L, Fits(L), L.sched.kind = "calendar", NEW R, Fits(R), R.sched.kind = "calendar",
         NEW a, Comes(L, a), NEW b, Comes(R, b), close(a, b), a <= b,
         NEW start \in Int, L.due < start, R.due < start
  PROVE  \E x, y \in Int : /\ Comes(L, x) /\ Comes(R, y) /\ close(x, y)
                           /\ x < start + Cycle /\ y < start + Cycle
<1>1. a \in Nat /\ b \in Nat /\ L.due \in Nat /\ R.due \in Nat
  BY DEF Comes, Fits
<1>2. CASE b < start
  BY <1>1, <1>2, CycleIs
<1>3. CASE start <= b
  <2>1. PICK k \in Nat, u \in start..(start + Cycle - 1) : b = u + k * Cycle
    <3>1. b \in Int
      BY <1>1
    <3> QED
      BY ONLY <1>3, <3>1, start \in Int, IntoCycle
  <2> DEFINE m == k * Cycle  x == a - m
  <2>2. m \in Nat
    BY CycleIs
  <2>3. u \in Int /\ start <= u /\ u < start + Cycle /\ R.due <= u
    BY <1>1, CycleIs
  <2>4. Comes(R, u)
    <3>1. Comes(R, u + k * Cycle)
      BY <2>1
    <3> QED
      BY <2>3, <3>1, ComesEarlier
  <2>5. a = x + m /\ x \in Int
    <3> HIDE DEF m
    <3> QED
      BY <1>1, <2>2
  <2>6. b = u + m
    BY <2>1
  <2>7. CASE L.due <= x
    <3>1. Comes(L, x)
      <4>1. Comes(L, x + k * Cycle)
        BY <2>5
      <4> HIDE DEF x
      <4> QED
        BY <2>5, <2>7, <4>1, ComesEarlier
    <3>2. close(x, u) /\ x <= u
      <4> HIDE DEF x, m
      <4> QED
        BY <2>2, <2>3, <2>5, <2>6, CycleIs DEF close
    <3> HIDE DEF x
    <3>3. x < start + Cycle
      BY <2>3, <2>5, <3>2, CycleIs
    <3> QED
      BY <2>3, <2>4, <2>5, <3>1, <3>2, <3>3
  <2>8. CASE x < L.due
    <3>1. Comes(L, L.due)
      BY DueComes
    <3>2. close(L.due, u)
      <4> HIDE DEF x, m
      <4> QED
        BY <1>1, <2>2, <2>3, <2>5, <2>6, <2>8, CycleIs DEF close
    <3>3. L.due < start + Cycle /\ L.due \in Int
      BY <1>1, CycleIs
    <3> QED
      BY <2>3, <2>4, <3>1, <3>2, <3>3
  <2> HIDE DEF x
  <2> QED
    BY <1>1, <2>5, <2>7, <2>8
<1> QED
  BY <1>1, <1>2, <1>3

\* calendars_conflict misses no two times that come too close.
LEMMA CalendarsMeet ==
  ASSUME NEW left, Fits(left), left.sched.kind = "calendar",
         NEW right, Fits(right), right.sched.kind = "calendar",
         NEW a, Comes(left, a), NEW b, Comes(right, b), close(a, b)
  PROVE  calendars_conflict(left, right)
<1> DEFINE most == Most(left.due, right.due)
           start == cycle_start(most)
           until == start + Cycle
<1>1. a \in Nat /\ b \in Nat /\ left.due \in Nat /\ right.due \in Nat
  BY DEF Comes, Fits
<1>2. most \in Int /\ left.due <= most /\ right.due <= most
  BY <1>1 DEF Most
<1>3. start \in Int /\ left.due < start /\ right.due < start
  <2>1. start \in Int /\ most < start
    <3> HIDE DEF most
    <3> QED
      BY <1>2, CycleStartsLater
  <2> HIDE DEF start, most
  <2> QED
    BY <1>1, <1>2, <2>1
<1>4. \E x, y \in Int : /\ Comes(left, x) /\ Comes(right, y) /\ close(x, y)
                        /\ x < until /\ y < until
  <2> HIDE DEF start
  <2>1. CASE a <= b
    BY <1>3, <2>1, CloseEarly
  <2>2. CASE b <= a
    <3>1. close(b, a)
      BY <1>1, CloseBothWays
    <3>2. PICK y \in Int, x \in Int :
             Comes(right, y) /\ Comes(left, x) /\ close(y, x) /\ y < until /\ x < until
      BY <1>3, <2>2, <3>1, CloseEarly
    <3>3. close(x, y)
      BY <3>2, CloseBothWays
    <3> QED
      BY <3>2, <3>3
  <2> QED
    BY <1>1, <2>1, <2>2
<1>5. PICK x \in Int, y \in Int : /\ Comes(left, x) /\ Comes(right, y) /\ close(x, y)
                                  /\ x < until /\ y < until
  BY <1>4
<1>6. until \in Int
  BY <1>3, CycleIs
<1>7. calendars_conflict(left, right)
        <=> \E i \in calendar_times(left, until), j \in calendar_times(right, until) :
              close(i.at, j.at)
  BY DEF calendars_conflict, calendars_until
<1> HIDE DEF until
<1>8. PICK i \in calendar_times(left, until) : i.at = x
  BY <1>5, <1>6, TimeListed
<1>9. PICK j \in calendar_times(right, until) : j.at = y
  BY <1>5, <1>6, TimeListed
<1> QED
  BY <1>5, <1>7, <1>8, <1>9

\* schedules_conflict: two rules of which some two times would come closer than the gap are
\* found in conflict, whatever their kinds, counts and ends.
THEOREM ConflictFound ==
  ASSUME NEW left, Fits(left), NEW right, Fits(right),
         NEW a, Comes(left, a), NEW b, Comes(right, b), close(a, b)
  PROVE  schedules_conflict(left, right)
<1>1. reserves(left) /\ reserves(right)
  BY ComesReserves
<1>2. a \in Int /\ b \in Int /\ close(b, a)
  <2>1. a \in Int /\ b \in Int
    BY DEF Comes
  <2> QED
    BY <2>1, CloseBothWays
<1>3. ASSUME NEW rw, Fits(rw), ~linear(rw)
      PROVE  rw.sched.kind = "calendar"
  BY <1>3, SchedulesAssumption DEF Fits, linear
<1>4. CASE linear(left) /\ linear(right)
  <2> DEFINE p == progression(left)  q == progression(right)
  <2>1. PICK i \in Nat : Bounded(p, i) /\ a = p.first + i * p.step
    BY <1>4, LinearPoints
  <2>2. PICK j \in Nat : Bounded(q, j) /\ b = q.first + j * q.step
    BY <1>4, LinearPoints
  <2>3. Sequence(p) /\ Sequence(q)
    BY <1>4, LinearPoints
  <2> HIDE DEF p, q
  <2>4. Meet(p, q)
    BY <2>1, <2>2 DEF Meet
  <2>5. progressions_conflict(p, q)
    BY <2>3, <2>4, ProgressionsExact
  <2>6. schedules_conflict(left, right) <=> progressions_conflict(p, q)
    BY <1>1, <1>4 DEF schedules_conflict, p, q
  <2> QED
    BY <2>5, <2>6
<1>5. CASE linear(left) /\ ~linear(right)
  <2> DEFINE p == progression(left)
  <2>1. PICK i \in Nat : Bounded(p, i) /\ a = p.first + i * p.step
    BY <1>5, LinearPoints
  <2>2. Sequence(p)
    BY <1>5, LinearPoints
  <2> HIDE DEF p
  <2>3. close(b, p.first + i * p.step)
    BY <1>2, <2>1
  <2>4. calendar_interval_conflict(right, p)
    BY <1>3, <1>5, <2>1, <2>2, <2>3, CalendarMeets
  <2>5. schedules_conflict(left, right) <=> calendar_interval_conflict(right, p)
    BY <1>1, <1>5 DEF schedules_conflict, p
  <2> QED
    BY <2>4, <2>5
<1>6. CASE ~linear(left) /\ linear(right)
  <2> DEFINE p == progression(right)
  <2>1. PICK j \in Nat : Bounded(p, j) /\ b = p.first + j * p.step
    BY <1>6, LinearPoints
  <2>2. Sequence(p)
    BY <1>6, LinearPoints
  <2> HIDE DEF p
  <2>3. close(a, p.first + j * p.step)
    BY <2>1
  <2>4. calendar_interval_conflict(left, p)
    BY <1>3, <1>6, <2>1, <2>2, <2>3, CalendarMeets
  <2>5. schedules_conflict(left, right) <=> calendar_interval_conflict(left, p)
    BY <1>1, <1>6 DEF schedules_conflict, p
  <2> QED
    BY <2>4, <2>5
<1>7. CASE ~linear(left) /\ ~linear(right)
  <2>1. calendars_conflict(left, right)
    BY <1>3, <1>7, CalendarsMeet
  <2>2. schedules_conflict(left, right) <=> calendars_conflict(left, right)
    BY <1>1, <1>7 DEF schedules_conflict
  <2> QED
    BY <2>1, <2>2
<1> QED
  BY <1>4, <1>5, <1>6, <1>7

-----------------------------------------------------------------------------
(* No conflict without a reason *)

\* repeats_by_runs gives an instant of a full cycle no repetition beyond the run count; when
\* the count ends within the cycle it gives none.
LEMMA FewRepeats ==
  ASSUME NEW rw, Fits(rw), rw.sched.kind = "calendar", rw.due # NoTime,
         rw.sched.runs # NoLimit,
         NEW start \in Int, rw.due <= start,
         NEW cycle, cycle = OfCycle(rw, start, start + Cycle),
         NEW item \in cycle, NEW k \in Nat,
         k <= repeats_by_runs(rw.sched.runs - rw.done, item.ordinal, Cardinality(cycle))
  PROVE  Cardinality(Between(rw.sched, rw.due, item.at + k * Cycle))
           <= rw.sched.runs - rw.done
<1> DEFINE s == rw.sched  due == rw.due  u == item.at
           full == start + Cycle
           left == s.runs - rw.done
           count(t) == Cardinality(Between(s, due, t))
           v == count(u)
           per == Cardinality(cycle)
           A == {x.at : x \in cycle}
           D == Between(s, start, start + Cycle - 1)
<1>1. /\ s \in Schedules /\ due \in Nat /\ rw.done \in Nat /\ s.runs \in Nat
      /\ s.kind = "calendar" /\ s.end = NoTime /\ left \in Int /\ full \in Int
      /\ Cycle \in Nat \ {0}
  BY SchedulesAssumption, CycleIs DEF Fits
<1>2. /\ A \subseteq D
      /\ u \in start..(start + Cycle - 1) /\ u \in Int /\ due <= u /\ start <= u
      /\ IsFiniteSet(cycle) /\ per \in Nat \ {0} /\ per = Cardinality(A)
  <2>1. /\ A \subseteq D
        /\ \A x \in cycle : x.at \in start..(start + Cycle - 1) /\ x.at \in Int /\ due <= x.at
        /\ IsFiniteSet(cycle) /\ per \in Nat
        /\ per = Cardinality(A) /\ (cycle # {} => per # 0)
    <3>1. full \in Int /\ full <= start + Cycle /\ cycle = OfCycle(rw, start, full)
      BY <1>1
    <3> HIDE DEF full
    <3>2. CycleListed(rw, start, cycle)
      BY <3>1, CycleItems
    <3> QED
      BY <3>2 DEF CycleListed
  <2>2. cycle # {}
    OBVIOUS
  <2> HIDE DEF A, D, per
  <2> QED
    BY <2>1, <2>2
<1>3. \A t \in Int : count(t) \in Nat /\ IsFiniteSet(Between(s, due, t))
  <2> HIDE DEF s, due
  <2> QED
    BY <1>1, BetweenGrows
<1>4. Comes(rw, u) /\ item.ordinal = v
  <2>1. item \in calendar_times(rw, full)
    BY DEF OfCycle
  <2> HIDE DEF full
  <2> QED
    BY <1>1, <2>1, ListedComes
<1>5. v <= left
  BY <1>1, <1>4 DEF Comes
<1>6. k * per <= left - v
  <2> DEFINE n == left - v
  <2>1. n \in Int /\ k <= n \div per
    BY <1>1, <1>2, <1>3, <1>4 DEF repeats_by_runs
  <2> HIDE DEF n, per
  <2>2. k <= n \div per <=> k * per <= n
    BY ONLY <1>2, <2>1, k \in Nat, FloorIs
  <2>3. k * per <= n
    BY <2>1, <2>2
  <2> QED
    BY <2>3 DEF n
<1>7. ASSUME NEW d \in D, count(d) <= left
      PROVE  d \in A
  <2>1. d \in Int /\ start <= d /\ d < full /\ Occurs(s, d)
    BY <1>1 DEF Between
  <2>2. Comes(rw, d)
    <3>1. d \in Nat /\ due <= d
      BY <1>1, <2>1
    <3> QED
      BY <1>1, <1>7, <2>1, <3>1 DEF Comes
  <2>3. PICK x \in calendar_times(rw, full) : x.at = d
    <3> HIDE DEF full
    <3> QED
      BY <1>1, <2>1, <2>2, TimeListed
  <2>4. x \in cycle
    BY <2>1, <2>3 DEF OfCycle
  <2> QED
    BY <2>3, <2>4
<1>8. CASE A = D
  <2>1. count(u + k * Cycle) <= v + k * Cardinality(D)
    <3> HIDE DEF u, due, s
    <3> QED
      BY <1>1, <1>2, CyclesCounted DEF D
  <2>2. k * Cardinality(D) = k * per
    BY <1>2, <1>8
  <2>3. count(u + k * Cycle) \in Nat
    <3>1. u + k * Cycle \in Int
      BY <1>1, <1>2
    <3> HIDE DEF count
    <3> QED
      BY <1>3, <3>1
  <2>4. v \in Nat /\ k * per \in Int
    BY <1>2, <1>3
  <2> DEFINE x == count(u + k * Cycle)  y == k * per
  <2>5. x <= v + y /\ y <= left - v /\ x \in Nat /\ v \in Nat /\ y \in Int
    BY <1>6, <2>1, <2>2, <2>3, <2>4
  <2> HIDE DEF x, y, v, left
  <2>6. x <= left
    BY <1>1, <2>5
  <2> QED
    BY <2>6 DEF x, left
<1>9. CASE A # D
  <2> DEFINE T == {d \in D : count(d) > left}
  <2>1. T \in SUBSET Nat /\ T # {}
    <3>1. D \subseteq Nat
      BY <1>1 DEF Between
    <3>2. PICK d \in D : d \notin A
      BY <1>2, <1>9
    <3>3. ~(count(d) <= left) /\ d \in Int
      BY <1>7, <3>1, <3>2
    <3>4. count(d) \in Nat
      <4> HIDE DEF count
      <4> QED
        BY <1>3, <3>3
    <3>5. count(d) > left
      <4> HIDE DEF count
      <4> QED
        BY <1>1, <3>3, <3>4
    <3> HIDE DEF D, count
    <3> QED
      BY <3>1, <3>5
  <2>2. PICK w \in T : \A d \in T : w <= d
    <3> HIDE DEF T
    <3> QED
      BY <2>1, FirstTime
  <2>3. w \in Int /\ start <= w /\ w <= start + Cycle - 1 /\ Occurs(s, w) /\ count(w) > left
    BY <2>1, <2>2 DEF Between
  <2>4. u < w
    <3>1. CASE w <= u
      <4>1. count(w) <= v
        <5> HIDE DEF u, s, due
        <5> QED
          BY <1>1, <1>2, <2>3, <3>1, BetweenGrows
      <4> HIDE DEF count, v
      <4>2. v \in Nat
        BY <1>2, <1>3 DEF v
      <4> QED
        BY <1>1, <1>3, <1>5, <2>3, <4>1, <4>2
    <3> QED
      BY <1>2, <2>3, <3>1
  <2> DEFINE E == Between(s, u, w - 1)
             F == Between(s, u + 1, w)
  <2>5. E \subseteq A
    <3> SUFFICES ASSUME NEW e \in E PROVE e \in A
      OBVIOUS
    <3>1. e \in Int /\ u <= e /\ e < w /\ Occurs(s, e)
      BY <1>2, <2>3 DEF Between
    <3>2. e \in D
      <4>1. start <= e /\ e <= start + Cycle - 1
        BY <1>1, <1>2, <2>3, <3>1
      <4> QED
        BY <1>1, <3>1, <4>1 DEF Between
    <3>3. ~(count(e) > left)
      <4>1. e \notin T
        <5> HIDE DEF T
        <5> QED
          BY <2>2, <2>3, <3>1
      <4> QED
        BY <3>2, <4>1
    <3>4. count(e) \in Nat
      <4> HIDE DEF count
      <4> QED
        BY <1>3, <3>1
    <3>5. count(e) <= left
      <4> HIDE DEF count, left
      <4> QED
        BY <1>1, <3>3, <3>4
    <3> HIDE DEF A, D, count
    <3> QED
      BY <1>7, <3>2, <3>5
  <2>6. /\ IsFiniteSet(E) /\ Cardinality(E) \in Nat /\ IsFiniteSet(F) /\ Cardinality(F) \in Nat
    <3>1. u \in Int /\ w - 1 \in Int /\ u + 1 \in Int /\ w \in Int
      BY <1>2, <2>3
    <3> HIDE DEF u, s
    <3> QED
      BY <3>1, BetweenGrows
  <2>7. Cardinality(E) <= per
    <3>1. A \in SUBSET D /\ IsFiniteSet(D)
      <4>1. start + Cycle - 1 \in Int
        BY <1>1
      <4>2. IsFiniteSet(D)
        <5> HIDE DEF s
        <5> QED
          BY <4>1, BetweenGrows
      <4> QED
        BY <1>2, <4>2
    <3>2. IsFiniteSet(A)
      <4> HIDE DEF A, D
      <4> QED
        BY ONLY <3>1, FS_Subset
    <3> HIDE DEF A, E, per
    <3>3. E \in SUBSET A
      BY <2>5
    <3>4. Cardinality(E) <= Cardinality(A)
      BY ONLY <3>2, <3>3, FS_Subset
    <3> QED
      BY <1>2, <3>4
  <2>8. Cardinality(F) <= Cardinality(E)
    <3>1. u \in E
      <4>1. Occurs(s, u) /\ u <= w - 1
        BY <1>2, <1>4, <2>3, <2>4 DEF Comes
      <4> QED
        BY <1>2, <2>3, <4>1 DEF Between
    <3>2. F \subseteq (E \ {u}) \cup {w}
      <4> SUFFICES ASSUME NEW e \in F, e # w PROVE e \in E \ {u}
        OBVIOUS
      <4>1. e \in Int /\ u < e /\ e <= w /\ Occurs(s, e)
        BY <1>2, <2>3 DEF Between
      <4>2. e <= w - 1 /\ u <= e
        BY <1>2, <2>3, <4>1
      <4> QED
        BY <1>2, <2>3, <4>1, <4>2 DEF Between
    <3> DEFINE G == E \ {u}
    <3> HIDE DEF E, F, u
    <3>3. IsFiniteSet(G) /\ Cardinality(G) = Cardinality(E) - 1
      BY ONLY <2>6, <3>1, FS_RemoveElement DEF G
    <3>4. F \subseteq G \cup {w}
      BY <3>2
    <3> HIDE DEF G
    <3>5. /\ IsFiniteSet(G \cup {w})
          /\ Cardinality(G \cup {w}) = IF w \in G THEN Cardinality(G) ELSE Cardinality(G) + 1
      BY ONLY <3>3, FS_AddElement
    <3> DEFINE H == G \cup {w}
    <3>6. IsFiniteSet(H) /\ F \in SUBSET H
      BY <3>4, <3>5
    <3>7. Cardinality(H) \in Nat /\ Cardinality(G) \in Nat
      BY ONLY <3>3, <3>6, FS_CardinalityType
    <3>8. Cardinality(H) <= Cardinality(E)
      BY ONLY <2>6, <3>3, <3>5, <3>7
    <3> HIDE DEF H
    <3>9. Cardinality(F) <= Cardinality(H)
      BY ONLY <3>6, FS_Subset
    <3> QED
      BY ONLY <2>6, <3>7, <3>8, <3>9
  <2>9. count(w) <= v + Cardinality(F)
    <3> DEFINE V == Between(s, due, u)  W == Between(s, due, w)
    <3>1. W \subseteq V \cup F
      <4> HIDE DEF u, due
      <4> QED
        BY <1>1, <1>2, <2>3, <2>4 DEF Between
    <3>2. IsFiniteSet(V) /\ Cardinality(V) \in Nat
      <4> HIDE DEF u, due, s
      <4> QED
        BY <1>1, <1>2, BetweenGrows
    <3> HIDE DEF V, W, F
    <3>3. /\ IsFiniteSet(V \cup F)
          /\ Cardinality(V \cup F) = Cardinality(V) + Cardinality(F) - Cardinality(V \cap F)
      BY ONLY <2>6, <3>2, FS_Union
    <3>4. IsFiniteSet(V \cap F)
      BY ONLY <3>2, FS_Intersection
    <3>5. Cardinality(V \cap F) \in Nat /\ Cardinality(V \cup F) \in Nat
      BY ONLY <3>3, <3>4, FS_CardinalityType
    <3> DEFINE U == V \cup F
    <3>6. IsFiniteSet(U) /\ W \in SUBSET U
      BY <3>1, <3>3
    <3>7. Cardinality(U) <= Cardinality(V) + Cardinality(F)
      BY ONLY <2>6, <3>2, <3>3, <3>5
    <3> HIDE DEF U
    <3>8. Cardinality(W) <= Cardinality(U) /\ Cardinality(W) \in Nat /\ Cardinality(U) \in Nat
      BY ONLY <3>6, FS_Subset, FS_CardinalityType
    <3>9. Cardinality(W) <= Cardinality(V) + Cardinality(F)
      BY ONLY <2>6, <3>2, <3>7, <3>8
    <3> QED
      BY <3>9 DEF V, W
  <2>10. left - v < per
    <3> DEFINE x == count(w)  y == Cardinality(E)  z == Cardinality(F)
    <3>1. x > left /\ x <= v + z /\ z <= y /\ y <= per /\ x \in Nat /\ v \in Nat
          /\ y \in Nat /\ z \in Nat
      BY <1>2, <1>3, <2>3, <2>6, <2>7, <2>8, <2>9
    <3> HIDE DEF x, y, z, v, per, left
    <3> QED
      BY <1>1, <1>2, <3>1
  <2>11. k = 0
    <3>1. CASE 1 <= k
      <4> DEFINE m == k * per
      <4>1. 1 * per <= m /\ m \in Int /\ 1 * per = per
        <5>1. m \in Int /\ 1 * per = per
          BY <1>2
        <5> HIDE DEF per
        <5> QED
          BY <1>2, <3>1, <5>1, TimesGrows
      <4>2. v \in Nat /\ m <= left - v
        BY <1>2, <1>3, <1>6
      <4> HIDE DEF m, v, left, per
      <4> QED
        BY <1>1, <1>2, <2>10, <4>1, <4>2
    <3> QED
      BY <3>1
  <2>12. u + k * Cycle = u
    <3>1. 0 * Cycle = 0 /\ u + 0 = u
      BY <1>1, <1>2
    <3> QED
      BY <2>11, <3>1
  <2> QED
    BY <1>5, <2>12
<1> QED
  BY <1>8, <1>9

\* repeated: what it repeats are times the rule still has, when a full cycle was listed, and
\* in any case the listed instant itself.
LEMMA RepeatedComes ==
  ASSUME NEW rw, Fits(rw), rw.sched.kind = "calendar", rw.due # NoTime,
         NEW start \in Int, rw.due <= start, NEW stop \in Int, stop <= start + Cycle,
         NEW cycle, cycle = OfCycle(rw, start, stop),
         NEW item \in cycle,
         NEW q, q = repeated(rw, item, Cardinality(cycle))
  PROVE  /\ Sequence(q) /\ q.first = item.at /\ q.step = Cycle
         /\ \A k \in Nat : Bounded(q, k) /\ (stop = start + Cycle \/ k = 0)
              => Comes(rw, item.at + k * Cycle)
<1> DEFINE s == rw.sched  due == rw.due  u == item.at
           per == Cardinality(cycle)
           few == repeats_by_runs(s.runs - rw.done, item.ordinal, per)
           ends == (s.end - u) \div Cycle
<1>1. /\ s \in Schedules /\ due \in Nat /\ rw.done \in Nat /\ s.end \in Nat /\ s.runs \in Nat
      /\ s.kind = "calendar" /\ (s.end = NoTime \/ s.runs = NoLimit)
      /\ Cycle \in Nat \ {0}
  BY SchedulesAssumption, CycleIs DEF Fits
<1>2. /\ u \in start..(start + Cycle - 1) /\ u \in Int /\ due <= u /\ start <= u
      /\ per \in Nat \ {0}
  <2>1. CycleListed(rw, start, cycle)
    BY CycleItems
  <2>2. cycle # {}
    OBVIOUS
  <2>3. u \in start..(start + Cycle - 1) /\ u \in Int /\ due <= u /\ per \in Nat /\ per # 0
    BY <2>1, <2>2 DEF CycleListed
  <2> HIDE DEF per
  <2> QED
    BY <2>3
<1>3. /\ Comes(rw, u)
      /\ s.runs # NoLimit => item.ordinal = Cardinality(Between(s, due, u))
  <2>1. item \in calendar_times(rw, stop)
    BY DEF OfCycle
  <2> QED
    BY <2>1, ListedComes
<1>4. Cardinality(Between(s, due, u)) \in Nat
  <2> HIDE DEF s, due, u
  <2> QED
    BY <1>1, <1>2, BetweenGrows
<1>5. (s.runs # NoLimit => few \in Int) /\ ends \in Int
  <2>1. s.runs # NoLimit => few = (s.runs - rw.done - Cardinality(Between(s, due, u))) \div per
    BY <1>3 DEF repeats_by_runs
  <2> DEFINE n == s.runs - rw.done - Cardinality(Between(s, due, u))
  <2>2. n \in Int
    BY <1>1, <1>4
  <2> HIDE DEF n, per
  <2>3. n \div per \in Int
    BY <1>2, <2>2, FloorDivision
  <2>4. s.end - u \in Int
    BY <1>1, <1>2
  <2>5. ends \in Int
    BY <1>1, <2>4, FloorDivision
  <2> QED
    BY <2>1, <2>3, <2>5 DEF n
<1>6. q = (IF s.runs # NoLimit THEN Until(u, Cycle, few)
             ELSE IF s.end # NoTime THEN Until(u, Cycle, ends) ELSE Endless(u, Cycle))
  <2>1. s.end = NoTime \/ s.runs = NoLimit
    BY <1>1
  <2> QED
    BY <2>1 DEF repeated
<1>7. /\ q \in Progressions /\ q.first = u /\ q.step = Cycle
      /\ s.runs # NoLimit => q.bounded /\ q.last = few
      /\ s.runs = NoLimit /\ s.end # NoTime => q.bounded /\ q.last = ends
  <2> HIDE DEF few, ends, u, s
  <2> QED
    BY ONLY <1>1, <1>2, <1>5, <1>6 DEF Until, Endless, Progressions
<1>8. Sequence(q)
  BY <1>1, <1>7 DEF Sequence
<1>9. ASSUME NEW k \in Nat, Bounded(q, k), stop = start + Cycle \/ k = 0
      PROVE  Comes(rw, u + k * Cycle)
  <2> DEFINE m == k * Cycle  a == u + m
  <2>1. CASE k = 0
    <3>1. u + k * Cycle = u
      <4>1. 0 * Cycle = 0 /\ u + 0 = u
        BY <1>1, <1>2
      <4> QED
        BY <2>1, <4>1
    <3> QED
      BY <1>3, <3>1
  <2>2. CASE stop = start + Cycle
    <3>1. /\ s.runs # NoLimit => k <= few
          /\ s.runs = NoLimit /\ s.end # NoTime => k <= ends
      BY <1>7, <1>9 DEF Bounded
    <3>2. m \in Nat /\ a \in Nat /\ due <= a
      <4>1. m \in Nat
        BY <1>1
      <4> HIDE DEF m
      <4> QED
        BY <1>1, <1>2, <4>1
    <3>3. Occurs(s, a)
      <4>1. Occurs(s, u)
        BY <1>3 DEF Comes
      <4> HIDE DEF s, u
      <4> QED
        BY <1>1, <1>2, <4>1, DayAgain
    <3>4. s.end # NoTime => a <= s.end
      <4> DEFINE n == s.end - u  c == Cycle
      <4>1. n \in Int /\ c \in Nat \ {0} /\ (s.end # NoTime => k <= n \div c)
        BY <1>1, <1>2, <3>1
      <4> HIDE DEF n, c
      <4>2. k <= n \div c <=> k * c <= n
        BY ONLY <4>1, k \in Nat, FloorIs
      <4>3. s.end # NoTime => k * c <= n
        BY <4>1, <4>2
      <4>4. s.end # NoTime => m <= s.end - u
        BY <4>3 DEF n, c
      <4> HIDE DEF m
      <4> QED
        BY <1>1, <1>2, <3>2, <4>4
    <3>5. s.runs # NoLimit => Cardinality(Between(s, due, a)) <= s.runs - rw.done
      <4> SUFFICES ASSUME s.runs # NoLimit
                   PROVE  Cardinality(Between(s, due, a)) <= s.runs - rw.done
        OBVIOUS
      <4>1. k <= repeats_by_runs(rw.sched.runs - rw.done, item.ordinal, Cardinality(cycle))
        BY <3>1
      <4>2. cycle = OfCycle(rw, start, start + Cycle)
        BY <2>2
      <4> QED
        BY <1>1, <4>1, <4>2, FewRepeats
    <3>6. Comes(rw, a)
      <4> HIDE DEF a
      <4> QED
        BY <1>1, <3>2, <3>3, <3>4, <3>5 DEF Comes
    <3> QED
      BY <3>6
  <2> QED
    BY <1>9, <2>1, <2>2
<1> QED
  BY <1>7, <1>8, <1>9

\* calendar_interval_conflict reports only a calendar rule that really comes too close to a
\* point of the progression.
LEMMA CalendarReports ==
  ASSUME NEW rw, Fits(rw), rw.sched.kind = "calendar", rw.due # NoTime,
         NEW p, Sequence(p), calendar_interval_conflict(rw, p)
  PROVE  \E a \in Nat, j \in Nat : /\ Comes(rw, a) /\ Bounded(p, j)
                                   /\ close(a, p.first + j * p.step)
<1> DEFINE due == rw.due
           start == cycle_start(due)
           full == start + Cycle
           far == p.first + p.step * p.last + Gap
           stop == IF p.bounded THEN Least(full, p.first + p.step * p.last + Gap) ELSE full
           times == calendar_times(rw, stop)
           cycle == OfCycle(rw, start, stop)
<1>1. due \in Nat /\ start \in Int /\ due < start /\ full \in Int /\ start < full
  BY CycleStartsLater, CycleIs DEF Fits
<1>2. /\ p.first \in Int /\ p.step \in Nat /\ p.bounded \in BOOLEAN /\ p.last \in Int
      /\ far \in Int
  <2>1. p.first \in Int /\ p.step \in Nat /\ p.bounded \in BOOLEAN /\ p.last \in Int
    BY DEF Sequence, Progressions
  <2> QED
    BY <2>1, CycleIs
<1>3. stop \in Int /\ stop <= full /\ (stop # full => p.bounded /\ stop = far /\ far < full)
  <2> HIDE DEF full
  <2> QED
    BY <1>1, <1>2 DEF Least
<1>4. \/ \E item \in times \ cycle : progressions_conflict(Point(item.at), p)
      \/ \E item \in cycle : progressions_conflict(repeated(rw, item, Cardinality(cycle)), p)
  BY DEF calendar_interval_conflict, OfCycle
<1> HIDE DEF start, full, stop, cycle, times
<1>5. ASSUME NEW item \in times \ cycle, progressions_conflict(Point(item.at), p)
      PROVE  \E a \in Nat, j \in Nat : /\ Comes(rw, a) /\ Bounded(p, j)
                                       /\ close(a, p.first + j * p.step)
  <2> DEFINE u == item.at  o == Point(u)
  <2>1. Comes(rw, u)
    BY <1>3, <1>5, ListedComes DEF times
  <2>2. u \in Nat
    BY <2>1 DEF Comes
  <2>3. o \in Progressions /\ o.first = u /\ o.step = 0 /\ o.bounded /\ o.last = 0
    <3> HIDE DEF u
    <3> QED
      BY <2>2 DEF Progressions, Point
  <2> HIDE DEF o
  <2>4. Sequence(o)
    BY <2>3 DEF Sequence
  <2>5. Meet(o, p)
    BY <1>5, <2>4, ProgressionsExact DEF o
  <2>6. PICK i \in Nat, j \in Nat : /\ Bounded(o, i) /\ Bounded(p, j)
                                    /\ close(o.first + i * o.step, p.first + j * p.step)
    BY <2>5 DEF Meet
  <2>7. o.first + i * o.step = u
    BY <2>2, <2>3
  <2> QED
    BY <2>1, <2>2, <2>6, <2>7
<1>6. ASSUME NEW item \in cycle,
             progressions_conflict(repeated(rw, item, Cardinality(cycle)), p)
      PROVE  \E a \in Nat, j \in Nat : /\ Comes(rw, a) /\ Bounded(p, j)
                                       /\ close(a, p.first + j * p.step)
  <2> DEFINE u == item.at
             q == repeated(rw, item, Cardinality(cycle))
  <2>1. /\ Sequence(q) /\ q.first = u /\ q.step = Cycle
        /\ \A k \in Nat : Bounded(q, k) /\ (stop = full \/ k = 0) => Comes(rw, u + k * Cycle)
    <3>1. rw.due <= start /\ stop <= start + Cycle /\ cycle = OfCycle(rw, start, stop)
      BY <1>1, <1>3 DEF full, cycle
    <3> DEFINE q0 == q
    <3>2. q0 = repeated(rw, item, Cardinality(cycle))
      OBVIOUS
    <3> HIDE DEF q0
    <3>3. /\ Sequence(q0) /\ q0.first = item.at /\ q0.step = Cycle
          /\ \A k \in Nat : Bounded(q0, k) /\ (stop = start + Cycle \/ k = 0)
               => Comes(rw, item.at + k * Cycle)
      BY <1>1, <1>3, <3>1, <3>2, RepeatedComes
    <3> QED
      BY <3>3 DEF q0, full
  <2> HIDE DEF q
  <2>2. Meet(q, p)
    BY <1>6, <2>1, ProgressionsExact DEF q
  <2>3. PICK k \in Nat, j \in Nat : /\ Bounded(q, k) /\ Bounded(p, j)
                                    /\ close(q.first + k * q.step, p.first + j * p.step)
    BY <2>2 DEF Meet
  <2> DEFINE m == k * Cycle  near == p.first + j * p.step
  <2>4. close(u + m, near)
    BY <2>1, <2>3
  <2>5. item \in calendar_times(rw, stop) /\ start <= u
    BY DEF cycle, OfCycle
  <2>6. u \in Nat
    <3>1. Comes(rw, u)
      BY <1>3, <2>5, ListedComes
    <3> QED
      BY <3>1 DEF Comes
  <2>7. stop = full \/ k = 0
    <3> SUFFICES ASSUME stop # full, 1 <= k PROVE FALSE
      OBVIOUS
    <3>1. p.bounded /\ stop = far /\ far < full
      BY <1>3
    <3> DEFINE end == p.first + p.step * p.last
    <3>2. near <= end /\ near \in Int /\ end \in Int /\ far = end + Gap
      BY <1>2, <2>3, <3>1, LastPoint
    <3>3. 1 * Cycle <= m /\ 1 * Cycle = Cycle /\ m \in Int
      <4> DEFINE c == Cycle
      <4>1. c \in Nat \ {0}
        BY CycleIs
      <4> HIDE DEF c
      <4>2. 1 * c <= k * c /\ 1 * c = c /\ k * c \in Int
        BY <4>1, TimesGrows
      <4> QED
        BY <4>2 DEF c
    <3>4. full = start + Cycle
      BY DEF full
    <3> HIDE DEF near, end, far, m, u
    <3> QED
      BY ONLY <1>1, <1>2, <2>4, <2>5, <2>6, <3>1, <3>2, <3>3, <3>4, CycleIs DEF close
  <2>8. Comes(rw, u + m)
    BY <2>1, <2>3, <2>7
  <2>9. u + m \in Nat
    BY <2>8 DEF Comes
  <2> HIDE DEF u, m
  <2> QED
    BY <2>3, <2>4, <2>8, <2>9
<1> QED
  BY <1>4, <1>5, <1>6

\* schedules_conflict is exact: it finds two rules in conflict if and only if some time of the
\* one is closer than the gap to some time of the other, however far ahead, for all kinds,
\* counts and ends.  A rule is refused only with a reason, and never let through without one.
THEOREM ConflictExact ==
  ASSUME NEW left, Fits(left), NEW right, Fits(right)
  PROVE  schedules_conflict(left, right) <=>
           \E a, b \in Nat : Comes(left, a) /\ Comes(right, b) /\ close(a, b)
<1>1. ASSUME NEW a \in Nat, NEW b \in Nat, Comes(left, a), Comes(right, b), close(a, b)
      PROVE  schedules_conflict(left, right)
  BY <1>1, ConflictFound
<1>2. ASSUME schedules_conflict(left, right)
      PROVE  \E a, b \in Nat : Comes(left, a) /\ Comes(right, b) /\ close(a, b)
  <2>1. reserves(left) /\ reserves(right) /\ left.due # NoTime /\ right.due # NoTime
    BY <1>2 DEF schedules_conflict, reserves
  <2>2. ASSUME NEW rw, Fits(rw), ~linear(rw)
        PROVE  rw.sched.kind = "calendar"
    BY <2>2, SchedulesAssumption DEF Fits, linear
  <2>3. CASE linear(left) /\ linear(right)
    <3> DEFINE p == progression(left)  q == progression(right)
    <3>1. /\ Sequence(p) /\ \A k \in Nat : Bounded(p, k) => Comes(left, p.first + k * p.step)
      BY <2>1, <2>3, PointsCome
    <3>2. /\ Sequence(q) /\ \A k \in Nat : Bounded(q, k) => Comes(right, q.first + k * q.step)
      BY <2>1, <2>3, PointsCome
    <3>3. progressions_conflict(p, q)
      BY <1>2, <2>3 DEF schedules_conflict
    <3> HIDE DEF p, q
    <3>4. Meet(p, q)
      BY <3>1, <3>2, <3>3, ProgressionsExact
    <3>5. PICK i \in Nat, j \in Nat : /\ Bounded(p, i) /\ Bounded(q, j)
                                      /\ close(p.first + i * p.step, q.first + j * q.step)
      BY <3>4 DEF Meet
    <3>6. Comes(left, p.first + i * p.step) /\ Comes(right, q.first + j * q.step)
      BY <3>1, <3>2, <3>5
    <3>7. p.first + i * p.step \in Nat /\ q.first + j * q.step \in Nat
      BY <3>6 DEF Comes
    <3> QED
      BY <3>5, <3>6, <3>7
  <2>4. CASE linear(left) /\ ~linear(right)
    <3> DEFINE p == progression(left)
    <3>1. /\ Sequence(p) /\ \A k \in Nat : Bounded(p, k) => Comes(left, p.first + k * p.step)
      BY <2>1, <2>4, PointsCome
    <3>2. calendar_interval_conflict(right, p)
      BY <1>2, <2>4 DEF schedules_conflict
    <3> HIDE DEF p
    <3>3. PICK b \in Nat, j \in Nat : /\ Comes(right, b) /\ Bounded(p, j)
                                      /\ close(b, p.first + j * p.step)
      BY <2>1, <2>2, <2>4, <3>1, <3>2, CalendarReports
    <3> DEFINE a == p.first + j * p.step
    <3>4. Comes(left, a)
      BY <3>1, <3>3
    <3>5. a \in Nat
      BY <3>4 DEF Comes
    <3>6. close(a, b)
      <4>1. close(b, a) /\ a \in Int /\ b \in Int
        BY <3>3, <3>5
      <4> HIDE DEF a
      <4> QED
        BY <4>1, CloseBothWays
    <3> HIDE DEF a
    <3> QED
      BY <3>3, <3>4, <3>5, <3>6
  <2>5. CASE ~linear(left) /\ linear(right)
    <3> DEFINE p == progression(right)
    <3>1. /\ Sequence(p) /\ \A k \in Nat : Bounded(p, k) => Comes(right, p.first + k * p.step)
      BY <2>1, <2>5, PointsCome
    <3>2. calendar_interval_conflict(left, p)
      BY <1>2, <2>5 DEF schedules_conflict
    <3> HIDE DEF p
    <3>3. PICK a \in Nat, j \in Nat : /\ Comes(left, a) /\ Bounded(p, j)
                                      /\ close(a, p.first + j * p.step)
      BY <2>1, <2>2, <2>5, <3>1, <3>2, CalendarReports
    <3> DEFINE b == p.first + j * p.step
    <3>4. Comes(right, b)
      BY <3>1, <3>3
    <3>5. b \in Nat /\ close(a, b)
      BY <3>3, <3>4 DEF Comes
    <3> HIDE DEF b
    <3> QED
      BY <3>3, <3>4, <3>5
  <2>6. CASE ~linear(left) /\ ~linear(right)
    <3> DEFINE until == calendars_until(left.due, right.due)
    <3>1. calendars_conflict(left, right)
      BY <1>2, <2>6 DEF schedules_conflict
    <3>2. until \in Int
      <4>1. Most(left.due, right.due) \in Int
        BY DEF Fits, Most
      <4> QED
        BY <4>1, CycleStartsLater, CycleIs DEF calendars_until
    <3>3. PICK x \in calendar_times(left, until), y \in calendar_times(right, until) :
             close(x.at, y.at)
      BY <3>1 DEF calendars_conflict
    <3> HIDE DEF until
    <3>4. Comes(left, x.at) /\ Comes(right, y.at)
      BY <2>1, <3>2, ListedComes
    <3>5. x.at \in Nat /\ y.at \in Nat
      BY <3>4 DEF Comes
    <3> QED
      BY <3>3, <3>4, <3>5
  <2> QED
    BY <2>3, <2>4, <2>5, <2>6
<1> QED
  BY <1>1, <1>2

-----------------------------------------------------------------------------
(* The next time *)

\* A next time is a time, or NoTime.
LEMMA NextIsTime ==
  ASSUME NEW s \in Schedules, NEW after \in Nat, NEW done
  PROVE  next_occurrence(s, after, done) \in Nat
<1> DEFINE later == {t \in (after + 1)..(after + s.at + s.every + Cycle) :
                       Occurs(s, t) /\ (s.end # NoTime => t <= s.end)}
<1>1. later \in SUBSET Nat
  BY SchedulesAssumption, SpacingAssumption
<1>2. later # {} => (CHOOSE t \in later : \A u \in later : t <= u) \in Nat
  <2> HIDE DEF later
  <2> QED
    BY <1>1, FirstTime
<1>3. next_occurrence(s, after, done)
        = IF schedule_expired(s, after, done) \/ later = {} THEN NoTime
            ELSE CHOOSE t \in later : \A u \in later : t <= u
  BY DEF next_occurrence
<1> HIDE DEF later
<1> QED
  BY <1>2, <1>3 DEF NoTime

\* The next time is an instant of the schedule after the given one, and the first.
LEMMA NextIs ==
  ASSUME NEW s \in Schedules, NEW after \in Nat, NEW done,
         NEW next, next = next_occurrence(s, after, done), next # NoTime
  PROVE  /\ next \in Nat /\ next > after /\ Occurs(s, next)
         /\ ~schedule_expired(s, after, done)
         /\ \A t \in Nat : t > after /\ Occurs(s, t) /\ (s.end # NoTime => t <= s.end)
              => next <= t
<1> DEFINE last == after + s.at + s.every + Cycle
           later == {t \in (after + 1)..last : Occurs(s, t) /\ (s.end # NoTime => t <= s.end)}
           found == CHOOSE t \in later : \A u \in later : t <= u
<1>1. later \in SUBSET Nat /\ last \in Int
  BY SchedulesAssumption, SpacingAssumption
<1>2. later # {} => found \in later /\ \A u \in later : found <= u
  <2> HIDE DEF later
  <2> QED
    BY <1>1, FirstTime
<1>3. next = IF schedule_expired(s, after, done) \/ later = {} THEN NoTime ELSE found
  BY DEF next_occurrence
<1>4. next = found /\ ~schedule_expired(s, after, done) /\ later # {}
  <2> HIDE DEF later, found
  <2> QED
    BY <1>3
<1>5. next \in later /\ \A u \in later : next <= u
  <2> HIDE DEF later, found
  <2> QED
    BY <1>2, <1>4
<1>6. next \in Nat /\ next > after /\ Occurs(s, next) /\ next <= last
  <2> HIDE DEF last
  <2> QED
    BY <1>1, <1>5
<1>7. ASSUME NEW t \in Nat, t > after, Occurs(s, t), s.end # NoTime => t <= s.end
      PROVE  next <= t
  <2>1. CASE t <= last
    <3> HIDE DEF last
    <3>1. t \in later
      BY <1>1, <1>7, <2>1
    <3> HIDE DEF later
    <3> QED
      BY <1>5, <3>1
  <2>2. CASE t > last
    <3> HIDE DEF last
    <3> QED
      BY <1>1, <1>6, <2>2
  <2> HIDE DEF last
  <2> QED
    BY <1>1, <2>1, <2>2
<1> QED
  BY <1>4, <1>6, <1>7

\* A rule that goes on to its next time comes at no time it did not have before.  A counted
\* rule must have run at its due time: of a late run the times that went by would be lost to
\* the calendar, not to the count.
LEMMA StillComes ==
  ASSUME NEW old, Fits(old), NEW new, new.sched = old.sched,
         NEW after \in Nat, NEW done, old.due # NoTime, old.due <= after,
         new.due = next_occurrence(old.sched, after, done),
         old.sched.runs # NoLimit => old.due = after /\ new.done = old.done + 1,
         NEW t \in Nat, Comes(new, t)
  PROVE  Comes(old, t)
<1> DEFINE s == old.sched  due == old.due  next == new.due
           V == Between(s, due, t)  W == Between(s, next, t)
<1>1. /\ s \in Schedules /\ due \in Nat /\ old.done \in Nat /\ s.runs \in Nat
      /\ s.end = NoTime \/ s.runs = NoLimit
  BY SchedulesAssumption DEF Fits
<1>2. /\ next # NoTime /\ next <= t /\ Occurs(s, t)
      /\ s.end # NoTime => t <= s.end
      /\ s.runs # NoLimit => Cardinality(W) <= s.runs - new.done
  BY DEF Comes
<1>3. /\ next \in Nat /\ next > after
      /\ \A u \in Nat : u > after /\ Occurs(s, u) /\ (s.end # NoTime => u <= s.end)
           => next <= u
  <2> DEFINE n == next
  <2>1. n = next_occurrence(s, after, done) /\ n # NoTime
    BY <1>2
  <2> HIDE DEF n, s
  <2>2. /\ n \in Nat /\ n > after
        /\ \A u \in Nat : u > after /\ Occurs(s, u) /\ (s.end # NoTime => u <= s.end)
             => n <= u
    BY <1>1, <2>1, NextIs
  <2> QED
    BY <2>2 DEF n
<1>4. due <= t
  <2> HIDE DEF next
  <2> QED
    BY <1>1, <1>2, <1>3
<1>5. IsFiniteSet(W) /\ Cardinality(W) \in Nat /\ IsFiniteSet(V) /\ Cardinality(V) \in Nat
  <2> HIDE DEF s, due, next
  <2> QED
    BY <1>1, <1>3, BetweenGrows
<1>6. ASSUME s.runs # NoLimit
      PROVE  Cardinality(V) <= s.runs - old.done
  <2>1. s.end = NoTime /\ due = after /\ new.done = old.done + 1
    BY <1>1, <1>6
  <2>2. V \subseteq W \cup {due}
    <3> SUFFICES ASSUME NEW u \in V PROVE u \in W \cup {due}
      OBVIOUS
    <3>1. u \in Nat /\ due <= u /\ u <= t /\ Occurs(s, u)
      BY <1>1 DEF Between
    <3>2. CASE u = due
      BY <3>2
    <3>3. CASE u # due
      <4>1. next <= u
        <5> HIDE DEF s, due, next
        <5> QED
          BY <1>1, <1>3, <2>1, <3>1, <3>3
      <4> QED
        BY <1>3, <3>1, <4>1 DEF Between
    <3> QED
      BY <3>2, <3>3
  <2>3. Cardinality(V) <= Cardinality(W) + 1
    <3> HIDE DEF V, W, due
    <3>4. /\ IsFiniteSet(W \cup {due})
          /\ Cardinality(W \cup {due}) = IF due \in W THEN Cardinality(W) ELSE Cardinality(W) + 1
      BY ONLY <1>5, FS_AddElement
    <3>1. IsFiniteSet(W \cup {due}) /\ Cardinality(W \cup {due}) <= Cardinality(W) + 1
      BY ONLY <1>5, <3>4
    <3>2. Cardinality(W \cup {due}) \in Nat
      BY <3>1, FS_CardinalityType
    <3>3. Cardinality(V) <= Cardinality(W \cup {due})
      BY <2>2, <3>1, FS_Subset
    <3> QED
      BY <1>5, <3>1, <3>2, <3>3
  <2> DEFINE v == Cardinality(V)  w == Cardinality(W)
  <2>4. v <= w + 1 /\ v \in Nat /\ w \in Nat /\ w <= s.runs - (old.done + 1)
    BY <1>2, <1>5, <1>6, <2>1, <2>3
  <2> HIDE DEF v, w
  <2>5. v <= s.runs - old.done
    BY <1>1, <2>4
  <2> QED
    BY <2>5 DEF v
<1> QED
  BY <1>1, <1>2, <1>4, <1>6 DEF Comes

-----------------------------------------------------------------------------
(* The invariant *)

\* Due times are instants of their schedules.
DueOccurs == \A r \in Rules : Fits(row[r])

\* An active rule is due at some time, a counted one no earlier than now and with runs left; only
\* rules whose runs may be missed, which are not counted, are ever paused.
CountedOnTime ==
  \A r \in Rules :
    /\ row[r].status = "active" =>
         /\ row[r].due # NoTime
         /\ row[r].sched.runs # NoLimit =>
              now <= row[r].due /\ row[r].done < row[r].sched.runs
    /\ row[r].status = "paused" => row[r].due # NoTime /\ row[r].sched \in Irregular

\* No time to come of the one is close to one of the other, however far ahead.
Apart(left, right) ==
  \A a, b \in Nat : Comes(left, a) /\ Comes(right, b) => ~close(a, b)

\* Rules that write to the same place.
Sharing(r, q) == r # q /\ Dest[r] \cap Dest[q] # {}

\* The invariant: active rules that share a destination keep apart.
TimesApart ==
  \A r, q \in Rules :
    row[r].status = "active" /\ row[q].status = "active" /\ Sharing(r, q)
      => Apart(row[r], row[q])

SpacingInv == TypeOK /\ DueOccurs /\ CountedOnTime /\ TimesApart

\* Keeping apart is mutual.
LEMMA ApartBothWays ==
  ASSUME NEW left, NEW right, Apart(left, right)
  PROVE  Apart(right, left)
<1> SUFFICES ASSUME NEW a \in Nat, NEW b \in Nat, Comes(right, a), Comes(left, b)
             PROVE  ~close(a, b)
  BY DEF Apart
<1>1. ~close(b, a)
  BY DEF Apart
<1> QED
  BY <1>1, CloseBothWays

\* When only one rule changes, only its own pairs need another look.
LEMMA OneRuleChanges ==
  ASSUME TimesApart, NEW r \in Rules, NEW new, row' = [row EXCEPT ![r] = new],
         DOMAIN row = Rules,
         new.status = "active" =>
           \A q \in Rules : row[q].status = "active" /\ Sharing(r, q) => Apart(new, row[q])
  PROVE  TimesApart'
<1> SUFFICES ASSUME NEW p \in Rules, NEW q \in Rules,
                    row'[p].status = "active", row'[q].status = "active", Sharing(p, q)
             PROVE  Apart(row'[p], row'[q])
  BY DEF TimesApart, Sharing
<1>1. p # q
  BY DEF Sharing
<1>2. Sharing(q, p)
  BY DEF Sharing
<1>3. CASE p = r
  <2>1. row'[p] = new /\ row'[q] = row[q]
    BY <1>1, <1>3
  <2> QED
    BY <1>3, <2>1
<1>4. CASE q = r
  <2>1. row'[q] = new /\ row'[p] = row[p]
    BY <1>1, <1>4
  <2>2. Apart(new, row[p])
    BY <1>2, <1>4, <2>1
  <2> QED
    BY <2>1, <2>2, ApartBothWays
<1>5. CASE p # r /\ q # r
  <2>1. row'[p] = row[p] /\ row'[q] = row[q]
    BY <1>5
  <2> QED
    BY <2>1 DEF TimesApart
<1> QED
  BY <1>3, <1>4, <1>5

\* A rule that keeps only times it had stays apart from the rules it was apart from.
LEMMA FewerTimes ==
  ASSUME TimesApart, NEW r \in Rules, row[r].status = "active", NEW new,
         \A t \in Nat : Comes(new, t) => Comes(row[r], t),
         NEW q \in Rules, row[q].status = "active", Sharing(r, q)
  PROVE  Apart(new, row[q])
<1>1. Apart(row[r], row[q])
  BY DEF TimesApart
<1> QED
  BY <1>1 DEF Apart

\* require_destination_spacing: a rule it lets through keeps apart from every active rule.
LEMMA LetThroughApart ==
  ASSUME NEW r \in Rules, NEW new, Fits(new), DueOccurs, require_destination_spacing(r, new),
         NEW q \in Rules, row[q].status = "active", Sharing(r, q)
  PROVE  Apart(new, row[q])
<1>1. ~schedules_conflict(new, row[q])
  BY DEF require_destination_spacing, Sharing
<1>2. Fits(row[q])
  BY DEF DueOccurs
<1> QED
  BY <1>1, <1>2, ConflictFound DEF Apart

-----------------------------------------------------------------------------
(* Types *)

\* Every row keeps a schedule the member may choose, a due time and a count, through
\* saves, pauses, runs, skipped runs and expiry.
THEOREM SpacingTypeCorrect ==
  ASSUME Schedules # {}
  PROVE  Spec => []TypeOK
<1>1. Init => TypeOK
  BY DEF Init, TypeOK, Absent, NoSchedule, NoTime
<1>2. TypeOK /\ [Next]_vars => TypeOK'
  <2> SUFFICES ASSUME TypeOK, [Next]_vars PROVE TypeOK'
    OBVIOUS
  <2> USE DEF TypeOK
  <2>1. ASSUME NEW r \in Rules, NEW s \in Schedules, Save(r, s) PROVE TypeOK'
    <3>1. PICK asked \in Most(1, now - late(s))..now :
            row' = [row EXCEPT ![r] = New(s, next_occurrence(s, asked, 0))]
      BY <2>1 DEF Save
    <3>2. asked \in Nat
      BY SpacingAssumption DEF Most, late
    <3> QED
      BY <2>1, <3>1, <3>2, NextIsTime DEF Save, New
  <2>2. ASSUME NEW r \in Rules, Pause(r) PROVE TypeOK'
    BY <2>2 DEF Pause, Missed
  <2>3. ASSUME NEW r \in Rules, Resume(r) PROVE TypeOK'
    BY <2>3 DEF Resume
  <2>4. ASSUME NEW r \in Rules, Run(r) PROVE TypeOK'
    <3>1. next_due(row[r].sched, now, row[r].done + 1) \in Nat
      BY NextIsTime DEF next_due
    <3> QED
      BY <2>4, <3>1 DEF Run
  <2>5. ASSUME NEW r \in Rules, Skip(r) PROVE TypeOK'
    <3>1. next_due(row[r].sched, now, row[r].done) \in Nat
      BY NextIsTime DEF next_due
    <3> QED
      BY <2>5, <3>1 DEF Skip, Missed
  <2>6. ASSUME NEW r \in Rules, Expire(r) PROVE TypeOK'
    BY <2>6 DEF Expire, NoTime
  <2>7. CASE Tick
    BY <2>7 DEF Tick
  <2>8. CASE UNCHANGED vars
    BY <2>8 DEF vars
  <2> QED
    BY <2>1, <2>2, <2>3, <2>4, <2>5, <2>6, <2>7, <2>8 DEF Next
<1> QED
  BY <1>1, <1>2, PTL DEF Spec

-----------------------------------------------------------------------------
(* Every step *)

\* What TypeOK says of one row.
Rows == [status : {"absent", "active", "paused", "completed"}, sched : Schedules,
         due : Nat, done : Nat]

\* A rule that may run late, or be skipped or paused, has no run count.
Uncounted == \A s \in Irregular : s.runs = NoLimit

\* Nothing is saved at the start.
LEMMA SpacingInit ==
  ASSUME Schedules # {}, Init
  PROVE  SpacingInv
<1>1. NoSchedule \in Schedules
  BY DEF NoSchedule
<1>2. row = [r \in Rules |-> Absent] /\ now = 1 /\ missed = 0
  BY DEF Init
<1>3. \A r \in Rules : /\ row[r].status = "absent" /\ row[r].sched = NoSchedule
                       /\ row[r].due = NoTime /\ row[r].done = 0
  BY <1>2 DEF Absent
<1>4. TypeOK
  BY <1>1, <1>2 DEF TypeOK, Absent, NoTime
<1>5. DueOccurs
  BY <1>1, <1>3 DEF DueOccurs, Fits, NoTime
<1>6. CountedOnTime /\ TimesApart
  BY <1>3 DEF CountedOnTime, TimesApart
<1> QED
  BY <1>4, <1>5, <1>6 DEF SpacingInv

\* A step that changes one rule keeps the invariant when the rule's new row fits it.
LEMMA OneRuleKeeps ==
  ASSUME SpacingInv, NEW r \in Rules, NEW new \in Rows, row' = [row EXCEPT ![r] = new],
         now' = now, missed' \in Nat, Fits(new),
         new.status = "active" =>
           /\ new.due # NoTime
           /\ new.sched.runs # NoLimit => now <= new.due /\ new.done < new.sched.runs,
         new.status = "paused" => new.due # NoTime /\ new.sched \in Irregular,
         new.status = "active" =>
           \A q \in Rules : row[q].status = "active" /\ Sharing(r, q) => Apart(new, row[q])
  PROVE  SpacingInv'
<1>1. TypeOK /\ DueOccurs /\ CountedOnTime /\ TimesApart
  BY DEF SpacingInv
<1>2. row \in [Rules -> Rows] /\ now \in Nat
  BY <1>1 DEF TypeOK, Rows
<1>3. row' \in [Rules -> Rows]
  BY <1>2
<1>4. \A q \in Rules : row'[q] = IF q = r THEN new ELSE row[q]
  BY <1>2
<1>5. TypeOK'
  BY <1>2, <1>3 DEF TypeOK, Rows
<1>6. DueOccurs'
  BY <1>1, <1>4 DEF DueOccurs
<1>7. CountedOnTime'
  <2> SUFFICES ASSUME NEW q \in Rules
               PROVE  /\ row'[q].status = "active" =>
                           /\ row'[q].due # NoTime
                           /\ row'[q].sched.runs # NoLimit =>
                                now <= row'[q].due /\ row'[q].done < row'[q].sched.runs
                      /\ row'[q].status = "paused" =>
                           row'[q].due # NoTime /\ row'[q].sched \in Irregular
    BY DEF CountedOnTime
  <2>1. CASE q = r
    BY <1>4, <2>1
  <2>2. CASE q # r
    BY <1>1, <1>4, <2>2 DEF CountedOnTime
  <2> QED
    BY <2>1, <2>2
<1>8. TimesApart'
  BY <1>1, <1>2, OneRuleChanges
<1> QED
  BY <1>5, <1>6, <1>7, <1>8 DEF SpacingInv

\* A saved rule passed require_destination_spacing against every active rule.
LEMMA SaveKeeps ==
  ASSUME Uncounted, SpacingInv, NEW r \in Rules, NEW s \in Schedules, Save(r, s)
  PROVE  SpacingInv'
<1>1. TypeOK /\ DueOccurs /\ now \in Nat /\ missed \in Nat
  BY DEF SpacingInv, TypeOK
<1>2. PICK asked \in Most(1, now - late(s))..now :
         LET due == next_occurrence(s, asked, 0)
         IN  /\ due # NoTime /\ (s.end # NoTime => due < s.end)
             /\ require_destination_spacing(r, New(s, due))
             /\ row' = [row EXCEPT ![r] = New(s, due)]
             /\ UNCHANGED <<now, missed>>
  BY DEF Save
<1> DEFINE due == next_occurrence(s, asked, 0)
           new == New(s, due)
<1>3. /\ due # NoTime /\ require_destination_spacing(r, new)
      /\ row' = [row EXCEPT ![r] = new] /\ now' = now /\ missed' = missed
  BY <1>2
<1>4. s.runs \in Nat /\ (s.runs # NoLimit => s \notin Irregular)
  BY SchedulesAssumption DEF Uncounted
<1>5. asked \in Nat /\ (s.runs # NoLimit => asked = now)
  <2>1. MaxLate \in Nat
    BY SpacingAssumption
  <2> QED
    BY <1>1, <1>4, <2>1 DEF Most, late
<1>6. due \in Nat /\ due > asked /\ Occurs(s, due) /\ ~schedule_expired(s, asked, 0)
  <2> HIDE DEF due
  <2> QED
    BY <1>3, <1>5, NextIs DEF due
<1> HIDE DEF due
<1>7. /\ new.status = "active" /\ new.sched = s /\ new.due = due /\ new.done = 0
      /\ new \in Rows /\ Fits(new)
  BY <1>6 DEF New, Rows, Fits
<1> HIDE DEF new
<1>8. s.runs # NoLimit => now <= due /\ 0 < s.runs
  BY <1>1, <1>4, <1>5, <1>6 DEF NoLimit
<1>9. \A q \in Rules : row[q].status = "active" /\ Sharing(r, q) => Apart(new, row[q])
  BY <1>1, <1>3, <1>7, LetThroughApart
<1> QED
  BY <1>1, <1>3, <1>7, <1>8, <1>9, OneRuleKeeps

\* A paused rule leaves the others as they were.
LEMMA PauseKeeps ==
  ASSUME SpacingInv, NEW r \in Rules, Pause(r)
  PROVE  SpacingInv'
<1>1. row \in [Rules -> Rows] /\ DueOccurs /\ CountedOnTime /\ missed \in Nat
  BY DEF SpacingInv, TypeOK, Rows
<1> DEFINE new == [row[r] EXCEPT !.status = "paused"]
<1>2. /\ row[r].status = "active" /\ row[r].sched \in Irregular
      /\ row' = [row EXCEPT ![r] = new] /\ now' = now /\ missed' \in Nat
  BY <1>1 DEF Pause, Missed
<1>3. /\ new \in Rows /\ new.status = "paused" /\ new.sched = row[r].sched
      /\ new.due = row[r].due /\ new.done = row[r].done
  BY <1>1 DEF Rows
<1>4. Fits(row[r]) /\ row[r].due # NoTime
  BY <1>1, <1>2 DEF DueOccurs, CountedOnTime
<1> HIDE DEF new
<1>5. Fits(new)
  BY <1>3, <1>4 DEF Fits
<1> QED
  BY <1>2, <1>3, <1>4, <1>5, OneRuleKeeps

\* A resumed rule is checked again, since rules may have been saved meanwhile.
LEMMA ResumeKeeps ==
  ASSUME Uncounted, SpacingInv, NEW r \in Rules, Resume(r)
  PROVE  SpacingInv'
<1>1. row \in [Rules -> Rows] /\ DueOccurs /\ CountedOnTime /\ missed \in Nat
  BY DEF SpacingInv, TypeOK, Rows
<1> DEFINE new == [row[r] EXCEPT !.status = "active"]
<1>2. /\ row[r].status = "paused" /\ require_destination_spacing(r, row[r])
      /\ row' = [row EXCEPT ![r] = new] /\ now' = now /\ missed' \in Nat
  BY <1>1 DEF Resume
<1>3. /\ new \in Rows /\ new.status = "active" /\ new.sched = row[r].sched
      /\ new.due = row[r].due /\ new.done = row[r].done
  BY <1>1 DEF Rows
<1>4. Fits(row[r]) /\ row[r].due # NoTime /\ row[r].sched.runs = NoLimit
  BY <1>1, <1>2 DEF DueOccurs, CountedOnTime, Uncounted
<1> HIDE DEF new
<1>5. Fits(new)
  BY <1>3, <1>4 DEF Fits
<1>6. ASSUME NEW q \in Rules, row[q].status = "active", Sharing(r, q)
      PROVE  Apart(new, row[q])
  <2>1. Apart(row[r], row[q])
    BY <1>1, <1>2, <1>4, <1>6, LetThroughApart
  <2> QED
    BY <1>3, <2>1 DEF Apart, Comes
<1> QED
  BY <1>2, <1>3, <1>4, <1>5, <1>6, OneRuleKeeps

\* A run takes a time away; a counted rule ran at its due time.
LEMMA RunKeeps ==
  ASSUME Uncounted, SpacingInv, NEW r \in Rules, Run(r)
  PROVE  SpacingInv'
<1>1. /\ row \in [Rules -> Rows] /\ DueOccurs /\ CountedOnTime /\ TimesApart
      /\ now \in Nat /\ missed \in Nat
  BY DEF SpacingInv, TypeOK, Rows
<1> DEFINE old == row[r]
           next == next_occurrence(old.sched, now, old.done + 1)
           status == IF next = NoTime THEN "completed" ELSE "active"
           new == [status |-> status, sched |-> old.sched, due |-> next, done |-> old.done + 1]
<1>2. /\ old.status = "active" /\ old.due \in 1..now
      /\ row' = [row EXCEPT ![r].due = next, ![r].done = @ + 1, ![r].status = status]
      /\ now' = now /\ missed' = missed
  BY DEF Run, Due, next_due
<1>3. old \in Rows /\ old.sched \in Schedules /\ old.done \in Nat /\ old.sched.runs \in Nat
  BY <1>1, SchedulesAssumption DEF Rows
<1>4. next \in Nat
  <2> HIDE DEF next, old
  <2> QED
    BY <1>1, <1>3, NextIsTime DEF next
<1>5. next # NoTime => /\ next > now /\ Occurs(old.sched, next)
                       /\ ~schedule_expired(old.sched, now, old.done + 1)
  <2> HIDE DEF next, old
  <2> QED
    BY <1>1, <1>3, NextIs DEF next
<1>6. row' = [row EXCEPT ![r] = new]
  <2> HIDE DEF next, status
  <2> QED
    BY <1>1, <1>2 DEF Rows
<1>7. Fits(old) /\ (old.sched.runs # NoLimit => now <= old.due)
  BY <1>1, <1>2 DEF DueOccurs, CountedOnTime
<1>8. /\ new.status = status /\ new.sched = old.sched /\ new.due = next
      /\ new.done = old.done + 1
  OBVIOUS
<1>9. new \in Rows /\ Fits(new)
  <2>1. status \in {"completed", "active"}
    OBVIOUS
  <2> HIDE DEF next, status, old
  <2> QED
    BY <1>3, <1>4, <1>5, <2>1 DEF Rows, Fits
<1>10. new.status = "active" => new.due # NoTime
  BY <1>8
<1>11. new.status # "paused"
  BY <1>8
<1>12. new.status = "active" /\ new.sched.runs # NoLimit
         => now <= new.due /\ new.done < new.sched.runs
  <2> HIDE DEF next, old, new
  <2> QED
    BY <1>1, <1>3, <1>4, <1>5, <1>8, <1>10 DEF schedule_expired
<1>13. ASSUME new.status = "active", NEW q \in Rules, row[q].status = "active", Sharing(r, q)
       PROVE  Apart(new, row[q])
  <2>1. ASSUME NEW t \in Nat, Comes(new, t)
        PROVE  Comes(old, t)
    <3>1. /\ old.due # NoTime /\ old.due <= now /\ new.sched = old.sched
          /\ new.due = next_occurrence(old.sched, now, old.done + 1)
          /\ old.sched.runs # NoLimit => old.due = now /\ new.done = old.done + 1
      BY <1>1, <1>2, <1>3, <1>7, <1>8 DEF NoTime
    <3> HIDE DEF old, new
    <3> QED
      BY <1>1, <1>7, <2>1, <3>1, StillComes
  <2> HIDE DEF new
  <2> QED
    BY <1>1, <1>2, <1>13, <2>1, FewerTimes
<1> HIDE DEF new
<1> QED
  BY <1>1, <1>2, <1>6, <1>9, <1>10, <1>11, <1>12, <1>13, OneRuleKeeps

\* A skipped run takes the times that went by away, or leaves the rule due as it was.
LEMMA SkipKeeps ==
  ASSUME Uncounted, SpacingInv, NEW r \in Rules, Skip(r)
  PROVE  SpacingInv'
<1>1. /\ row \in [Rules -> Rows] /\ DueOccurs /\ CountedOnTime /\ TimesApart
      /\ now \in Nat /\ missed \in Nat
  BY DEF SpacingInv, TypeOK, Rows
<1> DEFINE old == row[r]
           next == next_occurrence(old.sched, now, old.done)
           due == IF next = NoTime THEN old.due ELSE next
           new == [old EXCEPT !.due = due]
<1>2. /\ old.status = "active" /\ old.due \in 1..now /\ old.sched \in Irregular
      /\ row' = [row EXCEPT ![r].due = IF next = NoTime THEN @ ELSE next]
      /\ now' = now /\ missed' = missed + 1
  BY DEF Skip, Due, next_due, Missed
<1>3. /\ old \in Rows /\ old.sched \in Schedules /\ old.done \in Nat
      /\ old.sched.runs = NoLimit
  BY <1>1, <1>2 DEF Rows, Uncounted
<1>4. next # NoTime => next \in Nat /\ next > now /\ Occurs(old.sched, next)
  <2> HIDE DEF next, old
  <2> QED
    BY <1>1, <1>3, NextIs DEF next
<1>5. row' = [row EXCEPT ![r] = new]
  <2> HIDE DEF next
  <2> QED
    BY <1>1, <1>2 DEF Rows
<1>6. Fits(old)
  BY <1>1 DEF DueOccurs
<1>7. /\ new.status = old.status /\ new.sched = old.sched /\ new.due = due
      /\ new.done = old.done
  BY <1>3 DEF Rows
<1>8. due \in Nat /\ due # NoTime /\ Occurs(old.sched, due)
  <2>1. old.due # NoTime /\ old.due \in Nat /\ Occurs(old.sched, old.due)
    BY <1>2, <1>3, <1>6 DEF Fits, NoTime, Rows
  <2> HIDE DEF next
  <2> QED
    BY <1>4, <2>1
<1>9. new \in Rows
  <2> HIDE DEF due
  <2> QED
    BY <1>3, <1>8 DEF Rows
<1> HIDE DEF new, due
<1>10. Fits(new)
  BY <1>3, <1>7, <1>8 DEF Fits
<1>11. ASSUME NEW q \in Rules, row[q].status = "active", Sharing(r, q)
       PROVE  Apart(new, row[q])
  <2>1. ASSUME NEW t \in Nat, Comes(new, t)
        PROVE  Comes(old, t)
    <3>1. CASE next = NoTime
      <4>1. due = old.due
        BY <3>1 DEF due
      <4> QED
        BY <1>7, <2>1, <4>1 DEF Comes
    <3>2. CASE next # NoTime
      <4>1. /\ old.due # NoTime /\ old.due <= now /\ new.sched = old.sched
            /\ new.due = next_occurrence(old.sched, now, old.done)
            /\ old.sched.runs = NoLimit
        BY <1>1, <1>2, <1>3, <1>7, <3>2 DEF NoTime, due
      <4> HIDE DEF old, next
      <4> QED
        BY <1>1, <1>6, <2>1, <4>1, StillComes
    <3> QED
      BY <3>1, <3>2
  <2> QED
    BY <1>1, <1>2, <1>11, <2>1, FewerTimes
<1>12. missed' \in Nat
  BY <1>1, <1>2
<1> QED
  BY <1>2, <1>3, <1>5, <1>7, <1>8, <1>9, <1>10, <1>11, <1>12, OneRuleKeeps

\* A rule that is over has no times.
LEMMA ExpireKeeps ==
  ASSUME SpacingInv, NEW r \in Rules, Expire(r)
  PROVE  SpacingInv'
<1>1. row \in [Rules -> Rows] /\ missed \in Nat
  BY DEF SpacingInv, TypeOK, Rows
<1> DEFINE new == [row[r] EXCEPT !.due = NoTime, !.status = "completed"]
<1>2. row' = [row EXCEPT ![r] = new] /\ now' = now /\ missed' \in Nat
  BY <1>1 DEF Expire, Rows
<1>3. /\ new \in Rows /\ new.status = "completed" /\ new.sched = row[r].sched
      /\ new.due = NoTime /\ new.done = row[r].done
  BY <1>1 DEF Rows, NoTime
<1> HIDE DEF new
<1>4. Fits(new)
  BY <1>1, <1>3 DEF Fits, Rows, NoTime
<1> QED
  BY <1>2, <1>3, <1>4, OneRuleKeeps

\* The clock waits for a counted rule that is due.
LEMMA TickKeeps ==
  ASSUME Uncounted, SpacingInv, Tick
  PROVE  SpacingInv'
<1>1. /\ row \in [Rules -> Rows] /\ TypeOK /\ DueOccurs /\ CountedOnTime /\ TimesApart
      /\ now \in Nat
  BY DEF SpacingInv, TypeOK, Rows
<1>2. /\ row' = row /\ now' = now + 1 /\ missed' = missed
      /\ \A r \in Rules : Due(r) => now < row[r].due + late(row[r].sched)
  BY DEF Tick
<1>3. ASSUME NEW r \in Rules, row[r].status = "active", row[r].sched.runs # NoLimit
      PROVE  now' <= row[r].due
  <2>1. /\ row[r].due \in Nat /\ row[r].due # NoTime /\ now <= row[r].due
        /\ row[r].done < row[r].sched.runs /\ row[r].done \in Nat /\ row[r].sched \in Schedules
    BY <1>1, <1>3 DEF CountedOnTime, Rows
  <2>2. row[r].sched.end = NoTime /\ row[r].sched.runs \in Nat
    BY <1>3, <2>1, SchedulesAssumption
  <2>3. row[r].sched \notin Irregular /\ late(row[r].sched) = 0
    BY <1>3 DEF Uncounted, late
  <2>4. CASE row[r].due = now
    <3>1. ~schedule_expired(row[r].sched, now, row[r].done)
      BY <2>1, <2>2 DEF schedule_expired
    <3>2. row[r].due \in 1..now
      BY <1>1, <2>1, <2>4 DEF NoTime
    <3>3. Due(r)
      BY <1>3, <3>1, <3>2 DEF Due
    <3>4. now < row[r].due + 0
      BY <1>2, <2>3, <3>3
    <3> QED
      BY <1>1, <2>4, <3>4
  <2>5. CASE row[r].due # now
    BY <1>1, <1>2, <2>1, <2>5
  <2> QED
    BY <2>4, <2>5
<1>4. TypeOK' /\ DueOccurs'
  BY <1>1, <1>2 DEF TypeOK, DueOccurs
<1>5. CountedOnTime'
  BY <1>1, <1>2, <1>3 DEF CountedOnTime
<1>6. TimesApart'
  BY <1>1, <1>2 DEF TimesApart
<1> QED
  BY <1>4, <1>5, <1>6 DEF SpacingInv

\* The planned times, up to the horizon, are among the times that keep apart.
LEMMA InvKeepsApart ==
  ASSUME SpacingInv
  PROVE  PlannedTimesKeepApart
<1> SUFFICES ASSUME NEW r \in Rules, NEW q \in Rules, r # q,
                    row[r].status = "active", row[q].status = "active",
                    Dest[r] \cap Dest[q] # {},
                    NEW a \in planned(row[r]), NEW b \in planned(row[q])
             PROVE  ~close(a, b)
  BY DEF PlannedTimesKeepApart, Crowd
<1>1. Fits(row[r]) /\ Fits(row[q]) /\ Apart(row[r], row[q])
  BY DEF SpacingInv, DueOccurs, TimesApart, Sharing
<1>2. Comes(row[r], a) /\ Comes(row[q], b)
  BY <1>1, PlannedComes
<1>3. a \in Nat /\ b \in Nat
  BY <1>2 DEF Comes
<1> QED
  BY <1>1, <1>2, <1>3 DEF Apart

\* PlannedTimesKeepApart: the times at which active rules of a member still run keep apart at
\* each destination, whatever is saved, resumed, run, skipped and paused, for every gap, cycle,
\* horizon and set of schedules in which a rule that may miss a run has no run count.  (With a
\* count it is false: a missed run shifts the end, which no check looks at again.)
THEOREM TimesKeepApart ==
  ASSUME Schedules # {}, \A s \in Irregular : s.runs = NoLimit
  PROVE  Spec => []PlannedTimesKeepApart
<1>1. Init => SpacingInv
  BY SpacingInit
<1>2. SpacingInv /\ [Next]_vars => SpacingInv'
  <2> SUFFICES ASSUME SpacingInv, [Next]_vars PROVE SpacingInv'
    OBVIOUS
  <2>1. Uncounted
    BY DEF Uncounted
  <2>2. ASSUME NEW r \in Rules, NEW s \in Schedules, Save(r, s) PROVE SpacingInv'
    BY <2>1, <2>2, SaveKeeps
  <2>3. ASSUME NEW r \in Rules, Pause(r) PROVE SpacingInv'
    BY <2>3, PauseKeeps
  <2>4. ASSUME NEW r \in Rules, Resume(r) PROVE SpacingInv'
    BY <2>1, <2>4, ResumeKeeps
  <2>5. ASSUME NEW r \in Rules, Run(r) PROVE SpacingInv'
    BY <2>1, <2>5, RunKeeps
  <2>6. ASSUME NEW r \in Rules, Skip(r) PROVE SpacingInv'
    BY <2>1, <2>6, SkipKeeps
  <2>7. ASSUME NEW r \in Rules, Expire(r) PROVE SpacingInv'
    BY <2>7, ExpireKeeps
  <2>8. CASE Tick
    BY <2>1, <2>8, TickKeeps
  <2>9. CASE UNCHANGED vars
    BY <2>9 DEF vars, SpacingInv, TypeOK, DueOccurs, CountedOnTime, TimesApart
  <2> QED
    BY <2>2, <2>3, <2>4, <2>5, <2>6, <2>7, <2>8, <2>9 DEF Next
<1>3. SpacingInv => PlannedTimesKeepApart
  BY InvKeepsApart
<1> QED
  BY <1>1, <1>2, <1>3, PTL DEF Spec

-----------------------------------------------------------------------------
(* Refusals *)

\* What the times of a schedule are does not depend on the runs before, as long as it has one.
LEMMA NextIsFirst ==
  ASSUME NEW s \in Schedules, NEW after \in Nat, NEW done \in Nat
  PROVE  next_occurrence(s, after, done) \in {NoTime, next_occurrence(s, after, 0)}
<1> DEFINE later == {t \in (after + 1)..(after + s.at + s.every + Cycle) :
                       Occurs(s, t) /\ (s.end # NoTime => t <= s.end)}
           first == CHOOSE t \in later : \A u \in later : t <= u
<1>1. s.runs \in Nat
  BY SchedulesAssumption
<1>2. \A n \in Nat : next_occurrence(s, after, n)
        = IF schedule_expired(s, after, n) \/ later = {} THEN NoTime ELSE first
  BY DEF next_occurrence
<1>3. schedule_expired(s, after, 0) => schedule_expired(s, after, done)
  BY <1>1 DEF schedule_expired, NoLimit
<1> HIDE DEF later, first
<1> QED
  BY <1>2, <1>3

\* What the schedules of a horizon that sees far enough have in common: all their times are
\* seen, or they come round every span.
Over(rw) == \A t \in Nat : Comes(rw, t) => t + Gap <= Horizon
ComesRound(rw, span) ==
  /\ rw.due + span + Gap <= Horizon
  /\ \A t \in Nat : Comes(rw, t) /\ rw.due + span <= t => Comes(rw, t - span)

\* The due time was found from some time of the clock.
DueFound(rw) ==
  rw.due = NoTime \/ \E t \in 1..MaxTime : rw.due = next_occurrence(rw.sched, t, 0)

LEMMA SeenOrRound ==
  ASSUME NEW span \in Nat \ {0}, HorizonSees(span), NEW rw, Fits(rw), DueFound(rw),
         rw.due # NoTime
  PROVE  Over(rw) \/ ComesRound(rw, span)
<1> DEFINE s == rw.sched
<1>1. /\ s \in Schedules /\ rw.due \in Nat /\ rw.done \in Nat /\ s.end \in Nat
      /\ s.at \in Nat /\ s.every \in Nat \ {0} /\ s.kind \in {"once", "interval", "calendar"}
      /\ Occurs(s, rw.due)
  BY SchedulesAssumption DEF Fits
<1>2. Gap \in Nat \ {0} /\ Cycle \in Nat \ {0} /\ Horizon \in Nat
  BY SpacingAssumption
<1>3. CASE s.kind = "once" /\ s.at + Gap <= Horizon
  <2> SUFFICES ASSUME NEW t \in Nat, Comes(rw, t) PROVE t + Gap <= Horizon
    BY DEF Over
  <2>1. t = s.at
    BY <1>3 DEF Comes, Occurs
  <2> QED
    BY <1>3, <2>1
<1>4. CASE s.end # NoTime /\ s.end + Gap <= Horizon
  <2> SUFFICES ASSUME NEW t \in Nat, Comes(rw, t) PROVE t + Gap <= Horizon
    BY DEF Over
  <2>1. t <= s.end
    BY <1>4 DEF Comes
  <2> QED
    BY <1>1, <1>2, <1>4, <2>1
<1>5. CASE /\ s.kind # "once" /\ span % (IF s.kind = "interval" THEN s.every ELSE Cycle) = 0
           /\ \A t \in 1..MaxTime : next_occurrence(s, t, 0) + span + Gap <= Horizon
  <2>1. rw.due + span + Gap <= Horizon
    BY <1>5 DEF DueFound
  <2>2. ASSUME NEW t \in Nat, Comes(rw, t), rw.due + span <= t
        PROVE  Comes(rw, t - span)
    <3> DEFINE u == t - span
    <3>1. u \in Nat /\ rw.due <= u /\ u <= t /\ Occurs(s, t)
      BY <1>1, <2>2 DEF Comes
    <3>2. CASE s.kind = "interval"
      <4> DEFINE e == s.every  at == s.at
      <4>1. /\ e \in Nat \ {0} /\ at \in Nat /\ span % e = 0
            /\ (t - at) % e = 0 /\ at <= rw.due
        BY <1>1, <1>5, <3>1, <3>2 DEF Occurs
      <4> HIDE DEF e, at, u
      <4>2. PICK p \in Int : span = p * e
        BY <4>1, MultipleIs
      <4>3. PICK q \in Int : t - at = q * e
        <5> DEFINE n == t - at
        <5>1. n \in Int /\ n % e = 0
          BY <4>1
        <5> HIDE DEF n
        <5>2. \E q \in Int : n = q * e
          BY <4>1, <5>1, MultipleIs
        <5> QED
          BY <5>2 DEF n
      <4>4. u - at = (q - p) * e
        <5>1. (q - p) * e = q * e - p * e /\ p * e \in Int /\ q * e \in Int
          BY <4>1
        <5> QED
          BY <4>1, <4>2, <4>3, <5>1 DEF u
      <4>5. (u - at) % e = 0
        BY <3>1, <4>1, <4>4, MultipleIs
      <4>6. at <= u
        BY <1>1, <3>1, <4>1
      <4>7. Occurs(s, u)
        BY <3>2, <4>5, <4>6 DEF Occurs, e, at
      <4> QED
        BY <2>2, <3>1, <4>7, ComesBefore DEF u
    <3>3. CASE s.kind = "calendar"
      <4>1. span % Cycle = 0
        BY <1>5, <3>3
      <4>2. PICK p \in Int : span = p * Cycle
        BY ONLY <1>2, <4>1, span \in Int, MultipleIs
      <4>3. t = u + p * Cycle /\ u \in Int
        BY <1>2, <3>1, <4>2
      <4> HIDE DEF u, s
      <4>4. Occurs(s, u)
        BY <3>1, <3>3, <4>3, DayAgain
      <4> QED
        BY <2>2, <3>1, <4>4, ComesBefore DEF u, s
    <3> QED
      BY <1>1, <1>5, <3>2, <3>3
  <2> QED
    BY <2>1, <2>2 DEF ComesRound
<1> QED
  BY <1>1, <1>3, <1>4, <1>5 DEF HorizonSees

\* Two rules with times that come too close have two such times that the horizon sees.
LEMMA CrowdSeen ==
  ASSUME NEW span \in Nat \ {0}, NEW left, Fits(left), NEW right, Fits(right),
         Over(left) \/ ComesRound(left, span), Over(right) \/ ComesRound(right, span),
         \E a, b \in Nat : Comes(left, a) /\ Comes(right, b) /\ close(a, b)
  PROVE  Crowd(left, right)
<1> DEFINE Meeting(n) == \E a, b \in Nat :
             Comes(left, a) /\ Comes(right, b) /\ close(a, b) /\ n = a + b
           Sums == {n \in Nat : Meeting(n)}
<1>1. Sums # {}
  <2>1. PICK a \in Nat, b \in Nat : Comes(left, a) /\ Comes(right, b) /\ close(a, b)
    OBVIOUS
  <2>2. a + b \in Sums
    BY <2>1
  <2> QED
    BY <2>2
<1>2. PICK n \in Sums : \A m \in Sums : n <= m
  <2>1. Sums \in SUBSET Nat
    OBVIOUS
  <2> HIDE DEF Sums
  <2> QED
    BY <1>1, <2>1, FirstTime
<1>3. PICK a \in Nat, b \in Nat :
         Comes(left, a) /\ Comes(right, b) /\ close(a, b) /\ n = a + b
  OBVIOUS
<1>4. /\ Gap \in Nat \ {0} /\ Horizon \in Nat
      /\ left.due \in Nat /\ right.due \in Nat
      /\ a < b + Gap /\ b < a + Gap
  BY <1>3, SpacingAssumption DEF close, Fits
<1>10. a <= Horizon /\ b <= Horizon
  <2>1. CASE Over(left)
    <3>1. a + Gap <= Horizon
      BY <1>3, <2>1 DEF Over
    <3> QED
      BY <1>4, <3>1
  <2>2. CASE Over(right)
    <3>1. b + Gap <= Horizon
      BY <1>3, <2>2 DEF Over
    <3> QED
      BY <1>4, <3>1
  <2>3. CASE ComesRound(left, span) /\ ComesRound(right, span)
    <3>1. left.due + span + Gap <= Horizon /\ right.due + span + Gap <= Horizon
      BY <2>3 DEF ComesRound
    <3>2. ~(left.due + span <= a /\ right.due + span <= b)
      <4> SUFFICES ASSUME left.due + span <= a, right.due + span <= b PROVE FALSE
        OBVIOUS
      <4>1. Comes(left, a - span) /\ Comes(right, b - span)
        BY <1>3, <2>3 DEF ComesRound
      <4> DEFINE x == a - span  y == b - span
      <4>2. x \in Nat /\ y \in Nat /\ x + y < a + b /\ close(x, y)
        BY <1>3, <1>4 DEF close
      <4>3. x + y \in Sums
        <5> HIDE DEF x, y
        <5> QED
          BY <4>1, <4>2 DEF x, y
      <4> HIDE DEF Sums, x, y
      <4> QED
        BY <1>2, <1>3, <4>2, <4>3
    <3> QED
      BY <1>4, <3>1, <3>2
  <2> QED
    BY <2>1, <2>2, <2>3
<1> QED
  BY <1>3, <1>10, ComesPlanned DEF Crowd

\* The invariant: due times are instants that were found from a time of the clock.
DueTimesFound == \A r \in Rules : DueFound(row[r])
RefusalInv == TypeOK /\ DueOccurs /\ DueTimesFound /\ now \in 1..MaxTime

\* A step that changes one rule keeps the invariant when its due time is as before, none, or
\* a next one.
LEMMA OneDueMoves ==
  ASSUME RefusalInv, TypeOK', NEW r \in Rules, NEW new, row' = [row EXCEPT ![r] = new],
         new.sched \in Schedules, new.done \in Nat, now' = now,
         \/ new.due = NoTime
         \/ new.due = row[r].due /\ new.sched = row[r].sched
         \/ \E t \in 1..MaxTime, n \in Nat : new.due = next_occurrence(new.sched, t, n)
  PROVE  RefusalInv'
<1>1. row \in [Rules -> Rows] /\ DueOccurs /\ DueTimesFound /\ now \in 1..MaxTime
  BY DEF RefusalInv, TypeOK, Rows
<1>2. Fits(row[r]) /\ DueFound(row[r]) /\ MaxTime \in Nat
  BY <1>1, SpacingAssumption DEF DueOccurs, DueTimesFound
<1>3. Fits(new) /\ DueFound(new)
  <2>1. CASE new.due = NoTime
    BY <2>1 DEF Fits, DueFound, NoTime
  <2>2. CASE new.due = row[r].due /\ new.sched = row[r].sched
    BY <1>2, <2>2 DEF Fits, DueFound
  <2>3. CASE \E t \in 1..MaxTime, n \in Nat : new.due = next_occurrence(new.sched, t, n)
    <3>1. PICK t \in 1..MaxTime, n \in Nat : new.due = next_occurrence(new.sched, t, n)
      BY <2>3
    <3>2. t \in Nat
      BY <1>2
    <3>3. new.due \in {NoTime, next_occurrence(new.sched, t, 0)}
      BY <3>1, <3>2, NextIsFirst
    <3>4. new.due # NoTime => new.due \in Nat /\ Occurs(new.sched, new.due)
      BY <3>1, <3>2, NextIs
    <3> QED
      BY <3>3, <3>4 DEF Fits, DueFound, NoTime
  <2> QED
    BY <2>1, <2>2, <2>3
<1>4. \A q \in Rules : row'[q] = IF q = r THEN new ELSE row[q]
  BY <1>1
<1>5. DueOccurs' /\ DueTimesFound'
  BY <1>1, <1>3, <1>4 DEF DueOccurs, DueTimesFound
<1> QED
  BY <1>1, <1>5 DEF RefusalInv

\* Every step keeps the invariant.
LEMMA RefusalStep ==
  ASSUME RefusalInv, TypeOK', [Next]_vars
  PROVE  RefusalInv'
<1>1. /\ row \in [Rules -> Rows] /\ DueOccurs /\ DueTimesFound /\ now \in 1..MaxTime
      /\ MaxTime \in Nat /\ MaxLate \in Nat
  BY SpacingAssumption DEF RefusalInv, TypeOK, Rows
<1>2. ASSUME NEW r \in Rules, NEW s \in Schedules, Save(r, s) PROVE RefusalInv'
  <2>1. PICK asked \in Most(1, now - late(s))..now :
          row' = [row EXCEPT ![r] = New(s, next_occurrence(s, asked, 0))] /\ now' = now
    BY <1>2 DEF Save
  <2> DEFINE new == New(s, next_occurrence(s, asked, 0))
  <2>2. asked \in 1..MaxTime
    BY <1>1 DEF Most, late
  <2>3. new.sched = s /\ new.done = 0 /\ new.due = next_occurrence(new.sched, asked, 0)
    BY DEF New
  <2>4. row' = [row EXCEPT ![r] = new] /\ now' = now
    BY <2>1
  <2> HIDE DEF new
  <2>5. /\ new.sched \in Schedules /\ new.done \in Nat
        /\ \E t \in 1..MaxTime, n \in Nat : new.due = next_occurrence(new.sched, t, n)
    BY <2>2, <2>3
  <2> QED
    BY <2>4, <2>5, OneDueMoves
<1>3. ASSUME NEW r \in Rules, Pause(r) PROVE RefusalInv'
  <2> DEFINE new == [row[r] EXCEPT !.status = "paused"]
  <2>1. row' = [row EXCEPT ![r] = new] /\ now' = now
    BY <1>1, <1>3 DEF Pause, Rows
  <2>2. new.sched = row[r].sched /\ new.due = row[r].due /\ new.done = row[r].done
    BY <1>1 DEF Rows
  <2> HIDE DEF new
  <2> QED
    BY <1>1, <2>1, <2>2, OneDueMoves DEF Rows
<1>4. ASSUME NEW r \in Rules, Resume(r) PROVE RefusalInv'
  <2> DEFINE new == [row[r] EXCEPT !.status = "active"]
  <2>1. row' = [row EXCEPT ![r] = new] /\ now' = now
    BY <1>1, <1>4 DEF Resume, Rows
  <2>2. new.sched = row[r].sched /\ new.due = row[r].due /\ new.done = row[r].done
    BY <1>1 DEF Rows
  <2> HIDE DEF new
  <2> QED
    BY <1>1, <2>1, <2>2, OneDueMoves DEF Rows
<1>5. ASSUME NEW r \in Rules, Run(r) PROVE RefusalInv'
  <2> DEFINE next == next_occurrence(row[r].sched, now, row[r].done + 1)
             new == [row[r] EXCEPT !.due = next, !.done = @ + 1,
                                   !.status = IF next = NoTime THEN "completed" ELSE "active"]
  <2>1. row' = [row EXCEPT ![r] = new] /\ now' = now
    BY <1>1, <1>5 DEF Run, Rows, next_due
  <2>2. /\ new.sched = row[r].sched /\ new.done = row[r].done + 1
        /\ new.due = next_occurrence(new.sched, now, row[r].done + 1)
    BY <1>1 DEF Rows
  <2>3. row[r].sched \in Schedules /\ row[r].done + 1 \in Nat
    BY <1>1 DEF Rows
  <2> HIDE DEF new, next
  <2> QED
    BY <1>1, <2>1, <2>2, <2>3, OneDueMoves
<1>6. ASSUME NEW r \in Rules, Skip(r) PROVE RefusalInv'
  <2> DEFINE next == next_occurrence(row[r].sched, now, row[r].done)
             new == [row[r] EXCEPT !.due = IF next = NoTime THEN @ ELSE next]
  <2>1. row' = [row EXCEPT ![r] = new] /\ now' = now
    BY <1>1, <1>6 DEF Skip, Rows, next_due
  <2>2. /\ new.sched = row[r].sched /\ new.done = row[r].done
        /\ \/ new.due = row[r].due
           \/ new.due = next_occurrence(new.sched, now, row[r].done)
    BY <1>1 DEF Rows
  <2>3. row[r].sched \in Schedules /\ row[r].done \in Nat
    BY <1>1 DEF Rows
  <2> HIDE DEF new, next
  <2> QED
    BY <1>1, <2>1, <2>2, <2>3, OneDueMoves
<1>7. ASSUME NEW r \in Rules, Expire(r) PROVE RefusalInv'
  <2> DEFINE new == [row[r] EXCEPT !.due = NoTime, !.status = "completed"]
  <2>1. row' = [row EXCEPT ![r] = new] /\ now' = now
    BY <1>1, <1>7 DEF Expire, Rows
  <2>2. new.sched = row[r].sched /\ new.due = NoTime /\ new.done = row[r].done
    BY <1>1 DEF Rows
  <2> HIDE DEF new
  <2> QED
    BY <1>1, <2>1, <2>2, OneDueMoves DEF Rows
<1>8. CASE Tick
  BY <1>1, <1>8 DEF Tick, RefusalInv, DueOccurs, DueTimesFound
<1>9. CASE UNCHANGED vars
  BY <1>1, <1>9 DEF vars, RefusalInv, DueOccurs, DueTimesFound
<1> QED
  BY <1>2, <1>3, <1>4, <1>5, <1>6, <1>7, <1>8, <1>9 DEF Next

\* A rule that is refused for another has times that crowd it.
LEMMA RefusalHasAReason ==
  ASSUME NEW span \in Nat \ {0}, HorizonSees(span), RefusalInv
  PROVE  RefusalsHaveAReason
<1> SUFFICES ASSUME NEW r \in Rules, NEW q \in Rules, NEW s \in Schedules,
                    schedules_conflict(New(s, next_occurrence(s, now, 0)), row[q])
             PROVE  Crowd(New(s, next_occurrence(s, now, 0)), row[q])
  BY DEF RefusalsHaveAReason
<1> DEFINE new == New(s, next_occurrence(s, now, 0))
<1>1. now \in 1..MaxTime /\ now \in Nat /\ Fits(row[q]) /\ DueFound(row[q])
  BY SpacingAssumption DEF RefusalInv, DueOccurs, DueTimesFound
<1>2. new.sched = s /\ new.done = 0 /\ new.due = next_occurrence(s, now, 0)
  BY DEF New
<1>3. schedules_conflict(new, row[q])
  OBVIOUS
<1> HIDE DEF new
<1>4. Fits(new) /\ DueFound(new)
  <2>1. new.due # NoTime => new.due \in Nat /\ Occurs(s, new.due)
    BY <1>1, <1>2, NextIs
  <2> QED
    BY <1>1, <1>2, <2>1 DEF Fits, DueFound, NoTime
<1>5. \E a, b \in Nat : Comes(new, a) /\ Comes(row[q], b) /\ close(a, b)
  BY <1>1, <1>3, <1>4, ConflictExact
<1>6. new.due # NoTime /\ row[q].due # NoTime
  BY <1>5 DEF Comes
<1>7. /\ Over(new) \/ ComesRound(new, span)
      /\ Over(row[q]) \/ ComesRound(row[q], span)
  BY <1>1, <1>4, <1>6, SeenOrRound
<1>8. Crowd(new, row[q])
  BY <1>1, <1>4, <1>5, <1>7, CrowdSeen
<1> QED
  BY <1>8 DEF new

\* RefusalsHaveAReason: a rule is refused only when some two of the times the reference
\* definition lists come too close, for every gap, cycle and set of schedules, late, skipped or
\* paused, with and without run counts, whose collisions the horizon can see.
THEOREM RefusalsExplained ==
  ASSUME Schedules # {}, MaxTime >= 1, NEW span \in Nat \ {0}, HorizonSees(span)
  PROVE  Spec => []RefusalsHaveAReason
<1>1. Spec => []TypeOK
  BY SpacingTypeCorrect
<1>2. TypeOK /\ Init => RefusalInv
  <2> SUFFICES ASSUME TypeOK, Init PROVE RefusalInv
    OBVIOUS
  <2>1. now \in 1..MaxTime
    BY SpacingAssumption DEF Init
  <2>2. \A r \in Rules : row[r].sched \in Schedules /\ row[r].due = NoTime /\ row[r].done = 0
    BY DEF Init, Absent, TypeOK
  <2> QED
    BY <2>1, <2>2 DEF RefusalInv, DueOccurs, DueTimesFound, Fits, DueFound, NoTime
<1>3. TypeOK' /\ RefusalInv /\ [Next]_vars => RefusalInv'
  BY RefusalStep
<1>4. RefusalInv => RefusalsHaveAReason
  BY RefusalHasAReason
<1> QED
  BY <1>1, <1>2, <1>3, <1>4, PTL DEF Spec
=============================================================================
