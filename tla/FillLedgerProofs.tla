-------------------------- MODULE FillLedgerProofs --------------------------
(***************************************************************************)
(* Proofs about FillLedger, for any reports in any order: the increments   *)
(* of an order are one ladder and add up to what the broker and the        *)
(* charges say, the books balance, and contradictions stay flagged.        *)
(*                                                                         *)
(* The books are rationals in lowest terms.  Two rationals are compared    *)
(* over a common denominator (Is), so that what the replay does to the     *)
(* average and to the realized value becomes arithmetic of integers        *)
(* (Units).  A replay is a fold, so facts about it are proved by induction *)
(* over the sets of increments (SubsetInduction).                          *)
(***************************************************************************)
EXTENDS FillLedger, FoldLemmas

-----------------------------------------------------------------------------
(* Fractions. *)

\* Division with remainder.
LEMMA DivFacts ==
  ASSUME NEW n \in Int, NEW d \in Positive
  PROVE  /\ n \div d \in Int /\ n % d \in Int
         /\ n = d * (n \div d) + (n % d) /\ 0 <= n % d /\ n % d < d
BY DEF Positive

\* A multiple of k divides by k.
LEMMA Multiple ==
  ASSUME NEW k \in Positive, NEW a \in Int
  PROVE  (k * a) % k = 0 /\ (k * a) \div k = a /\ k * a \in Int
<1> DEFINE q == (k * a) \div k
           r == (k * a) % k
<1>0. k * a \in Int
  BY DEF Positive
<1>1. q \in Int /\ r \in Int /\ k * a = k * q + r /\ 0 <= r /\ r < k
  BY <1>0, DivFacts
<1> HIDE DEF q, r
<1>2. k * (a - q) = r
  BY <1>1 DEF Positive
<1>3. a - q = 0
  <2>1. CASE a - q >= 1
    <3>1. k * (a - q) >= k
      BY <1>1, <2>1 DEF Positive
    <3> QED BY <1>1, <1>2, <3>1 DEF Positive
  <2>2. CASE a - q <= -1
    <3>1. k * (a - q) <= -k
      BY <1>1, <2>2 DEF Positive
    <3> QED BY <1>1, <1>2, <3>1 DEF Positive
  <2> QED BY <1>1, <2>1, <2>2
<1>4. a = q /\ r = 0
  BY <1>1, <1>2, <1>3 DEF Positive
<1> QED BY <1>0, <1>4 DEF q, r

\* Dividing by the greatest common divisor leaves a fraction without common divisors.
LEMMA FracParts ==
  ASSUME NEW n \in Int, NEW d \in Positive
  PROVE  \E g \in Positive, a \in Int, b \in Positive :
           /\ Frac(n, d) = <<a, b>> /\ n = g * a /\ d = g * b
           /\ \A i \in Positive : d % i = 0 /\ n % i = 0 => i <= g
<1> DEFINE C == {i \in 1..d : d % i = 0 /\ n % i = 0}
<1>1. \A i \in Positive : d % i = 0 => i <= d
  <2> SUFFICES ASSUME NEW i \in Positive, d % i = 0 PROVE i <= d
    OBVIOUS
  <2>1. d = i * (d \div i) /\ d \div i \in Int
    BY DivFacts DEF Positive
  <2>2. d \div i >= 1
    <3> SUFFICES ASSUME d \div i <= 0 PROVE FALSE
      BY <2>1
    <3>1. i * (d \div i) <= 0
      BY <2>1 DEF Positive
    <3> QED BY <2>1, <3>1 DEF Positive
  <2> QED BY <2>1, <2>2 DEF Positive
<1>2. 1 \in C
  <2>1. d % 1 = 0 /\ n % 1 = 0
    BY DivFacts DEF Positive
  <2> QED BY <2>1 DEF Positive
<1>3. C \subseteq 1..d /\ \A i \in Positive : d % i = 0 /\ n % i = 0 => i \in C
  BY <1>1 DEF Positive
<1> HIDE DEF C
<1>4. \E g \in C : \A i \in C : g >= i
  <2> DEFINE Q == {m \in Nat : m <= d /\ (\E i \in C : i >= d - m)  => \E g \in C : \A i \in C : g >= i}
  <2>1. 0 \in Q
    BY <1>3 DEF Positive
  <2>2. ASSUME NEW m \in Nat, m \in Q PROVE m + 1 \in Q
    <3> SUFFICES ASSUME m + 1 <= d, NEW i \in C, i >= d - (m + 1) PROVE \E g \in C : \A j \in C : g >= j
      OBVIOUS
    <3>1. CASE \E j \in C : j >= d - m
      BY <2>2, <3>1 DEF Positive
    <3>2. CASE ~\E j \in C : j >= d - m
      <4>1. \A j \in C : i >= j
        BY <1>3, <3>2 DEF Positive
      <4> QED BY <4>1
    <3> QED BY <3>1, <3>2
  <2> HIDE DEF Q
  <2>3. \A m \in Nat : m \in Q
    BY <2>1, <2>2, NatSetInduction
  <2>4. d - 1 \in Q /\ d - 1 \in Nat
    BY <2>3 DEF Positive
  <2> QED BY <1>2, <2>4 DEF Q, Positive
<1> DEFINE g == Max(C)
<1>5. g \in C /\ \A i \in C : g >= i
  BY <1>4 DEF Max
<1>6. Frac(n, d) = <<n \div g, d \div g>>
  BY DEF Frac, C
<1> HIDE DEF g
<1>7. g \in Positive /\ d % g = 0 /\ n % g = 0
  BY <1>3, <1>5 DEF C, Positive
<1>8. /\ n = g * (n \div g) /\ d = g * (d \div g) /\ n \div g \in Int /\ d \div g \in Int
  BY <1>7, DivFacts DEF Positive
<1>9. d \div g \in Positive
  <2> SUFFICES ASSUME d \div g <= 0 PROVE FALSE
    BY <1>8 DEF Positive
  <2>1. g * (d \div g) <= 0
    BY <1>7, <1>8 DEF Positive
  <2> QED BY <1>8, <2>1 DEF Positive
<1>10. \A i \in Positive : d % i = 0 /\ n % i = 0 => i <= g
  BY <1>3, <1>5, <1>7 DEF Positive
<1> QED BY <1>6, <1>7, <1>8, <1>9, <1>10

\* A positive factor cancels.
LEMMA Cancel ==
  ASSUME NEW a \in Int, NEW b \in Int, NEW k \in Positive, a * k = b * k
  PROVE  a = b
<1>1. (a - b) * k = 0
  BY DEF Positive
<1>2. CASE a - b >= 1
  <2>1. (a - b) * k >= k
    BY <1>2 DEF Positive
  <2> QED BY <1>1, <2>1 DEF Positive
<1>3. CASE a - b <= -1
  <2>1. (a - b) * k <= -k
    BY <1>3 DEF Positive
  <2> QED BY <1>1, <2>1 DEF Positive
<1> QED BY <1>2, <1>3

\* A set of positive numbers has a least one.
LEMMA LeastPositive ==
  ASSUME NEW M \in SUBSET Positive, M # {}
  PROVE  \E m \in M : \A k \in M : m <= k
<1> DEFINE R == OpToRel(<, Nat)
<1>1. IsWellFoundedOn(R, Nat)
  BY NatLessThanWellFounded
<1>2. M \subseteq Nat
  BY DEF Positive
<1>3. PICK m \in M : \A n \in M : <<n, m>> \notin R
  <2> HIDE DEF R
  <2> QED BY <1>1, <1>2, WFMin
<1>4. \A n \in M : ~(n < m)
  BY <1>2, <1>3 DEF OpToRel
<1> QED BY <1>2, <1>4

Rational == {Frac(n, d) : n \in Int, d \in Positive}

\* A fraction keeps its value when it is reduced.
LEMMA FracValue ==
  ASSUME NEW n \in Int, NEW d \in Positive
  PROVE  /\ Frac(n, d) \in Rational /\ Frac(n, d)[1] \in Int /\ Frac(n, d)[2] \in Positive
         /\ Frac(n, d)[1] * d = n * Frac(n, d)[2]
<1>1. PICK g \in Positive, a \in Int, b \in Positive :
        Frac(n, d) = <<a, b>> /\ n = g * a /\ d = g * b
  BY FracParts
<1>2. a * (g * b) = (g * a) * b
  BY DEF Positive
<1> QED BY <1>1, <1>2 DEF Rational

\* A rational is a pair in lowest terms.
LEMMA RationalParts ==
  ASSUME NEW x \in Rational
  PROVE  /\ x = <<x[1], x[2]>> /\ x[1] \in Int /\ x[2] \in Positive
         /\ \A k \in Positive, a \in Int, b \in Positive : x[1] = k * a /\ x[2] = k * b => k = 1
<1>1. PICK n \in Int, d \in Positive : x = Frac(n, d)
  BY DEF Rational
<1>2. PICK g \in Positive, u \in Int, v \in Positive :
        /\ x = <<u, v>> /\ n = g * u /\ d = g * v
        /\ \A i \in Positive : d % i = 0 /\ n % i = 0 => i <= g
  BY <1>1, FracParts
<1>3. ASSUME NEW k \in Positive, NEW a \in Int, NEW b \in Positive, u = k * a, v = k * b
      PROVE  k = 1
  <2>1. n = (g * k) * a /\ d = (g * k) * b /\ g * k \in Positive
    <3>1. n = (g * k) * a
      BY <1>2, <1>3 DEF Positive
    <3>2. d = (g * k) * b
      BY <1>2, <1>3 DEF Positive
    <3>3. g * k >= 1
      BY DEF Positive
    <3> QED BY <3>1, <3>2, <3>3 DEF Positive
  <2>2. b \in Int
    BY DEF Positive
  <2>3. n % (g * k) = 0 /\ d % (g * k) = 0
    BY <2>1, <2>2, Multiple
  <2>4. g * k <= g
    BY <1>2, <2>1, <2>3
  <2>5. CASE k >= 2
    <3>1. g * k >= g * 2
      BY <2>5 DEF Positive
    <3> QED BY <2>4, <3>1 DEF Positive
  <2> QED BY <2>5 DEF Positive
<1> QED BY <1>2, <1>3

\* The pairs in lowest terms of one value are one pair.
LEMMA Lowest ==
  ASSUME NEW n \in Int, NEW d \in Positive
  PROVE  \E a \in Int, b \in Positive :
           \A x \in Rational : x[1] * d = n * x[2] => x = <<a, b>>
<1> DEFINE M == {m \in Positive : \E c \in Int : c * d = n * m}
<1>1. d \in M
  OBVIOUS
<1>2. PICK b \in M : \A k \in M : b <= k
  BY <1>1, LeastPositive
<1>3. PICK a \in Int : a * d = n * b
  OBVIOUS
<1>4. b \in Positive
  OBVIOUS
<1>5. ASSUME NEW x \in Rational, x[1] * d = n * x[2]
      PROVE  x = <<a, b>>
  <2> DEFINE c == x[1]
             e == x[2]
             q == e \div b
             s == e % b
  <2>1. c \in Int /\ e \in Positive /\ x = <<c, e>>
        /\ \A k \in Positive, u \in Int, v \in Positive : c = k * u /\ e = k * v => k = 1
    BY RationalParts
  <2>2. q \in Int /\ s \in Int /\ e = b * q + s /\ 0 <= s /\ s < b
    <3> HIDE DEF M
    <3> QED BY <1>4, <2>1, DivFacts DEF Positive
  <2>3. c * d = n * e
    BY <1>5
  <2> HIDE DEF c, e, q, s
  <2>4. (c - q * a) * d = n * s
    <3>1. (c - q * a) * d = c * d - q * (a * d)
      BY <2>1, <2>2 DEF Positive
    <3>2. q * (a * d) = q * (n * b)
      BY <1>3
    <3>3. n * s = n * e - q * (n * b)
      <4> HIDE DEF M
      <4>1. s = e - b * q
        BY <1>4, <2>1, <2>2 DEF Positive
      <4> QED BY <1>4, <2>1, <2>2, <4>1 DEF Positive
    <3> QED BY <2>3, <3>1, <3>2, <3>3
  <2>5. s = 0
    <3> SUFFICES ASSUME s > 0 PROVE FALSE
      BY <2>2
    <3>1. s \in Positive /\ c - q * a \in Int
      BY <2>1, <2>2 DEF Positive
    <3>2. s \in M
      BY <2>4, <3>1
    <3> HIDE DEF M
    <3> QED BY <1>2, <1>4, <2>2, <3>2 DEF Positive
  <2>6. e = q * b /\ c = q * a
    <3>1. e = q * b
      <4> HIDE DEF M
      <4> QED BY <1>4, <2>1, <2>2, <2>5 DEF Positive
    <3>2. (c - q * a) * d = 0 * d
      BY <2>4, <2>5 DEF Positive
    <3>3. c - q * a \in Int
      BY <2>1, <2>2
    <3>4. c - q * a = 0
      <4> HIDE DEF M
      <4> QED BY <3>2, <3>3, Cancel
    <3> QED BY <2>1, <2>2, <3>1, <3>4
  <2>7. q \in Positive
    <3> SUFFICES ASSUME q <= 0 PROVE FALSE
      BY <2>2 DEF Positive
    <3>1. q * b <= 0
      <4> HIDE DEF M
      <4> QED BY <1>4, <2>2 DEF Positive
    <3> HIDE DEF M
    <3> QED BY <2>1, <2>6, <3>1 DEF Positive
  <2>8. q = 1
    BY <1>4, <2>1, <2>6, <2>7
  <2> HIDE DEF M
  <2> QED BY <1>4, <2>1, <2>6, <2>8 DEF Positive
<1> HIDE DEF M
<1> QED BY <1>4, <1>5

\* Equal rationals are the same pair.
LEMMA RationalEqual ==
  ASSUME NEW x \in Rational, NEW y \in Rational, x[1] * y[2] = y[1] * x[2]
  PROVE  x = y
<1>1. x[1] \in Int /\ x[2] \in Positive
  BY RationalParts
<1>2. y[1] \in Int /\ y[2] \in Positive
  BY RationalParts
<1>3. PICK a \in Int, b \in Positive :
           \A z \in Rational : z[1] * y[2] = y[1] * z[2] => z = <<a, b>>
  BY <1>2, Lowest
<1> QED BY <1>3

\* Whole amounts are rationals.
LEMMA AmountRational ==
  ASSUME NEW n \in Int
  PROVE  Amount(n) \in Rational /\ Amount(n) = Frac(n, 1)
<1>1. 1 \in Positive
  BY DEF Positive
<1>2. PICK g \in Positive, a \in Int, b \in Positive : Frac(n, 1) = <<a, b>> /\ n = g * a /\ 1 = g * b
  BY <1>1, FracParts
<1>3. g = 1 /\ b = 1
  <2>1. CASE g >= 2
    <3>1. g * b >= 2 * b
      BY <2>1 DEF Positive
    <3> QED BY <1>2, <3>1 DEF Positive
  <2> QED BY <1>2, <2>1 DEF Positive
<1>4. a = n
  BY <1>2, <1>3
<1> QED BY <1>1, <1>2, <1>3, <1>4 DEF Amount, Rational

-----------------------------------------------------------------------------
(* Rationals over a common denominator. *)

\* x is X over D.
Is(x, X, D) == x[1] * D = X * x[2]

\* Over one denominator, a rational has one numerator, and a numerator one rational.
LEMMA IsUnique ==
  ASSUME NEW D \in Positive, NEW X \in Int, NEW x \in Rational, Is(x, X, D)
  PROVE  /\ \A Y \in Int : Is(x, Y, D) => X = Y
         /\ \A y \in Rational : Is(y, X, D) => x = y
<1>1. x[1] \in Int /\ x[2] \in Positive
  BY RationalParts
<1>2. ASSUME NEW Y \in Int, Is(x, Y, D) PROVE X = Y
  <2>1. X * x[2] = Y * x[2]
    BY <1>2 DEF Is
  <2> QED BY <1>1, <2>1, Cancel
<1>3. ASSUME NEW y \in Rational, Is(y, X, D) PROVE x = y
  <2>1. y[1] \in Int /\ y[2] \in Positive
    BY RationalParts
  <2> DEFINE a == x[1]
             b == x[2]
             c == y[1]
             d == y[2]
  <2>2. a * D = X * b /\ c * D = X * d
    BY <1>3 DEF Is
  <2> HIDE DEF a, b, c, d
  <2>3. a \in Int /\ b \in Positive /\ c \in Int /\ d \in Positive
    BY <1>1, <2>1 DEF a, b, c, d
  <2>4. (a * d) * D = (c * b) * D
    <3>1. (a * d) * D = (X * b) * d
      <4>1. (a * d) * D = (a * D) * d
        BY <2>3 DEF Positive
      <4> QED BY <2>2, <4>1
    <3>2. (c * b) * D = (X * d) * b
      <4>1. (c * b) * D = (c * D) * b
        BY <2>3 DEF Positive
      <4> QED BY <2>2, <4>1
    <3>3. (X * b) * d = (X * d) * b
      BY <2>3 DEF Positive
    <3> QED BY <3>1, <3>2, <3>3
  <2>5. a * d \in Int /\ c * b \in Int
    BY <2>3 DEF Positive
  <2>6. a * d = c * b
    BY <2>4, <2>5, Cancel
  <2> QED BY <2>6, RationalEqual DEF a, b, c, d
<1> QED BY <1>2, <1>3

\* What a fraction is over D.
LEMMA FracIs ==
  ASSUME NEW n \in Int, NEW d \in Positive, NEW D \in Positive, NEW X \in Int, n * D = X * d
  PROVE  Frac(n, d) \in Rational /\ Is(Frac(n, d), X, D)
<1> DEFINE p == Frac(n, d)[1]
           q == Frac(n, d)[2]
<1>1. Frac(n, d) \in Rational /\ p \in Int /\ q \in Positive /\ p * d = n * q
  BY FracValue
<1> HIDE DEF p, q
<1>2. (p * D) * d = (X * q) * d
  <2>1. (p * D) * d = (p * d) * D
    BY <1>1 DEF Positive
  <2>2. (n * q) * D = (n * D) * q
    BY <1>1 DEF Positive
  <2>3. (X * d) * q = (X * q) * d
    BY <1>1 DEF Positive
  <2> QED BY <1>1, <2>1, <2>2, <2>3
<1>3. p * D \in Int /\ X * q \in Int
  BY <1>1 DEF Positive
<1>4. p * D = X * q
  BY <1>2, <1>3, Cancel
<1> QED BY <1>1, <1>4 DEF Is, p, q

\* What the operations on rationals do over a common denominator.
LEMMA IsAmount ==
  ASSUME NEW n \in Int, NEW D \in Positive
  PROVE  Amount(n) \in Rational /\ Is(Amount(n), n * D, D)
<1>1. Amount(n) \in Rational
  BY AmountRational
<1> QED BY <1>1 DEF Amount, Is, Positive

LEMMA IsPlus ==
  ASSUME NEW D \in Positive, NEW X \in Int, NEW Y \in Int,
         NEW x \in Rational, NEW y \in Rational, Is(x, X, D), Is(y, Y, D)
  PROVE  /\ Plus(x, y) \in Rational /\ Is(Plus(x, y), X + Y, D)
         /\ Minus(x, y) \in Rational /\ Is(Minus(x, y), X - Y, D)
<1> DEFINE a == x[1]
           b == x[2]
           c == y[1]
           d == y[2]
<1>1. a \in Int /\ b \in Positive /\ c \in Int /\ d \in Positive
  BY RationalParts
<1>2. a * D = X * b /\ c * D = Y * d
  BY DEF Is
<1>3. Plus(x, y) = Frac(a * d + c * b, b * d) /\ Minus(x, y) = Frac(a * d - c * b, b * d)
  BY DEF Plus, Minus
<1> HIDE DEF a, b, c, d
<1>4. (a * d) * D = X * (b * d)
  <2>1. (a * d) * D = (a * D) * d
    BY <1>1 DEF Positive
  <2>2. (X * b) * d = X * (b * d)
    BY <1>1 DEF Positive
  <2> QED BY <1>2, <2>1, <2>2
<1>5. (c * b) * D = Y * (b * d)
  <2>1. (c * b) * D = (c * D) * b
    BY <1>1 DEF Positive
  <2>2. (Y * d) * b = Y * (b * d)
    BY <1>1 DEF Positive
  <2> QED BY <1>2, <2>1, <2>2
<1>6. a * d \in Int /\ c * b \in Int /\ b * d \in Positive
  <2>1. b * d >= 1
    BY <1>1 DEF Positive
  <2> QED BY <1>1, <2>1 DEF Positive
<1> DEFINE u == a * d
           v == c * b
           w == b * d
<1> HIDE DEF u, v, w
<1>7. u \in Int /\ v \in Int /\ w \in Positive /\ u * D = X * w /\ v * D = Y * w
  BY <1>4, <1>5, <1>6 DEF u, v, w
<1>8. (u + v) * D = (X + Y) * w /\ (u - v) * D = (X - Y) * w
  <2>1. (u + v) * D = u * D + v * D /\ (u - v) * D = u * D - v * D
    BY <1>7 DEF Positive
  <2>2. (X + Y) * w = X * w + Y * w /\ (X - Y) * w = X * w - Y * w
    BY <1>7 DEF Positive
  <2> QED BY <1>7, <2>1, <2>2
<1>9. u + v \in Int /\ u - v \in Int /\ X + Y \in Int /\ X - Y \in Int
  BY <1>7
<1>10. Frac(u + v, w) \in Rational /\ Is(Frac(u + v, w), X + Y, D)
  BY <1>7, <1>8, <1>9, FracIs
<1>11. Frac(u - v, w) \in Rational /\ Is(Frac(u - v, w), X - Y, D)
  BY <1>7, <1>8, <1>9, FracIs
<1> QED BY <1>3, <1>10, <1>11 DEF u, v, w

LEMMA IsScale ==
  ASSUME NEW D \in Positive, NEW X \in Int, NEW x \in Rational, Is(x, X, D), NEW n \in Int
  PROVE  Scale(x, n) \in Rational /\ Is(Scale(x, n), X * n, D)
<1> DEFINE a == x[1]
           b == x[2]
<1>1. a \in Int /\ b \in Positive
  BY RationalParts
<1>2. a * D = X * b
  BY DEF Is
<1>3. Scale(x, n) = Frac(a * n, b)
  BY DEF Scale
<1> HIDE DEF a, b
<1>4. (a * n) * D = (X * n) * b
  <2>1. (a * n) * D = (a * D) * n
    BY <1>1 DEF Positive
  <2>2. (X * b) * n = (X * n) * b
    BY <1>1 DEF Positive
  <2> QED BY <1>2, <2>1, <2>2
<1>5. a * n \in Int /\ X * n \in Int
  BY <1>1
<1>6. Frac(a * n, b) \in Rational /\ Is(Frac(a * n, b), X * n, D)
  BY <1>1, <1>4, <1>5, FracIs
<1> QED BY <1>3, <1>6

LEMMA IsOver ==
  ASSUME NEW D \in Positive, NEW X \in Int, NEW x \in Rational, NEW n \in Positive, Is(x, X * n, D)
  PROVE  Over(x, n) \in Rational /\ Is(Over(x, n), X, D)
<1> DEFINE a == x[1]
           b == x[2]
<1>1. a \in Int /\ b \in Positive
  BY RationalParts
<1>2. a * D = (X * n) * b
  BY DEF Is
<1>3. Over(x, n) = Frac(a, b * n)
  BY DEF Over
<1> HIDE DEF a, b
<1>4. a * D = X * (b * n)
  <2>1. (X * n) * b = X * (b * n)
    BY <1>1 DEF Positive
  <2> QED BY <1>2, <2>1
<1>5. b * n \in Positive
  <2>1. b * n >= 1
    BY <1>1 DEF Positive
  <2> QED BY <1>1, <2>1 DEF Positive
<1>6. Frac(a, b * n) \in Rational /\ Is(Frac(a, b * n), X, D)
  BY <1>1, <1>4, <1>5, FracIs
<1> QED BY <1>3, <1>6

\* A denominator that serves one more, and that much finer.
LEMMA Finer ==
  ASSUME NEW D \in Positive, NEW x \in Rational, NEW n \in Positive
  PROVE  \E k \in Positive, X \in Int :
           /\ D * k \in Positive /\ Is(x, X * n, D * k)
           /\ \A y \in Rational, Y \in Int : Is(y, Y, D) => Y * k \in Int /\ Is(y, Y * k, D * k)
<1> DEFINE a == x[1]
           b == x[2]
           k == b * n
<1>1. a \in Int /\ b \in Positive
  BY RationalParts
<1> HIDE DEF a, b
<1>2. k \in Positive
  <2>1. b * n >= 1
    BY <1>1 DEF Positive
  <2> QED BY <1>1, <2>1 DEF Positive
<1>3. a * (D * k) = ((a * D) * n) * b
  BY <1>1 DEF Positive
<1>4. a * D \in Int
  BY <1>1 DEF Positive
<1>5. Is(x, (a * D) * n, D * k)
  BY <1>3 DEF Is, a, b
<1> HIDE DEF k
<1>6. D * k \in Positive
  <2>1. D * k >= 1
    BY <1>2 DEF Positive
  <2> QED BY <1>2, <2>1 DEF Positive
<1>7. ASSUME NEW y \in Rational, NEW Y \in Int, Is(y, Y, D)
      PROVE  Y * k \in Int /\ Is(y, Y * k, D * k)
  <2> DEFINE c == y[1]
             d == y[2]
  <2>1. c \in Int /\ d \in Positive
    BY RationalParts
  <2>2. c * D = Y * d
    BY <1>7 DEF Is
  <2> HIDE DEF c, d
  <2>3. c * (D * k) = (Y * k) * d
    <3>1. c * (D * k) = (c * D) * k
      BY <1>2, <2>1 DEF Positive
    <3>2. (Y * d) * k = (Y * k) * d
      BY <1>2, <2>1 DEF Positive
    <3> QED BY <2>2, <3>1, <3>2
  <2>4. Y * k \in Int
    BY <1>2 DEF Positive
  <2> QED BY <2>3, <2>4 DEF Is, c, d
<1> QED BY <1>2, <1>4, <1>5, <1>6, <1>7

\* Rationals have a common denominator.
LEMMA Common ==
  ASSUME NEW x \in Rational, NEW y \in Rational, NEW z \in Rational
  PROVE  \E D \in Positive, X \in Int, Y \in Int, Z \in Int : Is(x, X, D) /\ Is(y, Y, D) /\ Is(z, Z, D)
<1>0. 1 \in Positive
  BY DEF Positive
<1>1. PICK D1 \in Positive, X1 \in Int : Is(x, X1, D1)
  <2>1. x[1] \in Int /\ x[2] \in Positive
    BY RationalParts
  <2> QED BY <2>1 DEF Is
<1>2. PICK k2 \in Positive, Y2 \in Int :
        /\ D1 * k2 \in Positive /\ Is(y, Y2 * 1, D1 * k2)
        /\ \A w \in Rational, W \in Int : Is(w, W, D1) => W * k2 \in Int /\ Is(w, W * k2, D1 * k2)
  BY <1>0, Finer
<1> DEFINE D2 == D1 * k2
           X2 == X1 * k2
<1>3. D2 \in Positive /\ X2 \in Int /\ Y2 * 1 \in Int /\ Is(x, X2, D2) /\ Is(y, Y2 * 1, D2)
  BY <1>1, <1>2
<1> HIDE DEF D2, X2
<1>4. PICK k \in Positive, Z \in Int :
        /\ D2 * k \in Positive /\ Is(z, Z * 1, D2 * k)
        /\ \A w \in Rational, W \in Int : Is(w, W, D2) => W * k \in Int /\ Is(w, W * k, D2 * k)
  BY <1>0, <1>3, Finer
<1>5. Z * 1 \in Int
  OBVIOUS
<1> QED BY <1>3, <1>4, <1>5

\* Rationals add up in any order.
LEMMA PlusLaws ==
  /\ \A x, y \in Rational : Plus(x, y) \in Rational /\ Plus(x, y) = Plus(y, x)
  /\ \A x, y, z \in Rational : Plus(x, Plus(y, z)) = Plus(y, Plus(x, z))
  /\ \A x \in Rational : Plus(x, Amount(0)) = x
<1>1. ASSUME NEW x \in Rational, NEW y \in Rational, NEW z \in Rational
      PROVE  /\ Plus(x, y) \in Rational /\ Plus(x, y) = Plus(y, x)
             /\ Plus(x, Plus(y, z)) = Plus(y, Plus(x, z))
             /\ Plus(x, Amount(0)) = x
  <2>1. PICK D \in Positive, X \in Int, Y \in Int, Z \in Int : Is(x, X, D) /\ Is(y, Y, D) /\ Is(z, Z, D)
    BY Common
  <2>2. /\ Plus(x, y) \in Rational /\ Is(Plus(x, y), X + Y, D)
        /\ Plus(y, x) \in Rational /\ Is(Plus(y, x), Y + X, D)
        /\ Plus(y, z) \in Rational /\ Is(Plus(y, z), Y + Z, D)
        /\ Plus(x, z) \in Rational /\ Is(Plus(x, z), X + Z, D)
    BY <2>1, IsPlus
  <2>3. X + Y = Y + X /\ X + Y \in Int /\ Y + Z \in Int /\ X + Z \in Int
    OBVIOUS
  <2>4. /\ Plus(x, Plus(y, z)) \in Rational /\ Is(Plus(x, Plus(y, z)), X + (Y + Z), D)
        /\ Plus(y, Plus(x, z)) \in Rational /\ Is(Plus(y, Plus(x, z)), Y + (X + Z), D)
    BY <2>1, <2>2, <2>3, IsPlus
  <2>5. X + (Y + Z) = Y + (X + Z) /\ X + (Y + Z) \in Int
    OBVIOUS
  <2>6. Amount(0) \in Rational /\ Is(Amount(0), 0 * D, D) /\ 0 * D = 0 /\ 0 * D \in Int /\ X + 0 = X
    BY IsAmount DEF Positive
  <2>7. Plus(x, Amount(0)) \in Rational /\ Is(Plus(x, Amount(0)), X, D)
    BY <2>1, <2>6, IsPlus
  <2> QED BY <2>1, <2>2, <2>3, <2>4, <2>5, <2>7, IsUnique
<1>2. Amount(0) \in Rational
  BY AmountRational
<1> QED BY <1>1, <1>2

-----------------------------------------------------------------------------
(* Sums. *)

(* A sum over the subsets of S is a recursion of this kind. *)
LEMMA TotalIsFold ==
  ASSUME NEW S, IsFiniteSet(S), NEW F, \A x \in S : F[x] \in Rational
  PROVE  \A T \in SUBSET S :
           /\ Sum(T, F) \in Rational
           /\ T = {} => Sum(T, F) = Amount(0)
           /\ T # {} => Sum(T, F) =
                          Plus(F[Any(T)], Sum(T \ {Any(T)}, F))
<1> DEFINE pick == [T \in SUBSET S |-> Any(T)]
           step == [p \in S \X Rational |-> Plus(F[p[1]], p[2])]
<1>1. \A T \in SUBSET S : T # {} => Any(T) \in T /\ pick[T] = Any(T)
  BY DEF Any
<1>2. step \in [S \X Rational -> Rational]
  BY PlusLaws
<1>3. PICK g \in [SUBSET S -> Rational] : IsFold(g, S, Amount(0), step, pick)
  <2> HIDE DEF pick, step
  <2>1. Amount(0) \in Rational /\ Picks(pick, S)
    BY <1>1, AmountRational DEF Picks
  <2> QED BY <1>2, <2>1, FoldExists, ZenonT(30)
<1>4. \A T \in SUBSET S : g[T] = IF T = {} THEN Amount(0) ELSE Plus(F[Any(T)], g[T \ {Any(T)}])
  <2> SUFFICES ASSUME NEW T \in SUBSET S, T # {}
               PROVE  g[T] = Plus(F[Any(T)], g[T \ {Any(T)}])
    BY <1>3 DEF IsFold
  <2>1. Any(T) \in S /\ g[T \ {Any(T)}] \in Rational
    BY <1>1
  <2>2. g[T] = step[<<Any(T), g[T \ {Any(T)}]>>]
    BY <1>1, <1>3 DEF IsFold
  <2>3. QED
    BY <2>1, <2>2
<1> HIDE DEF pick, step
<1>5. ASSUME NEW T \in SUBSET S PROVE Sum(T, F) = g[T]
  <2> DEFINE Body(it) == [s \in SUBSET T |-> IF s = {} THEN Amount(0) ELSE Plus(F[Any(s)], it[s \ {Any(s)}])]
             iter == CHOOSE it : it = Body(it)
             gT == [s \in SUBSET T |-> g[s]]
  <2>1. Sum(T, F) = iter[T]
    BY DEF Sum, FoldFunctionOnSet, MapThenFoldSet, Any
  <2>2. gT = Body(gT)
    <3>1. \A s \in SUBSET T : gT[s] = IF s = {} THEN Amount(0) ELSE Plus(F[Any(s)], gT[s \ {Any(s)}])
      BY <1>4
    <3> HIDE DEF gT
    <3>2. QED
      BY <3>1 DEF gT
  <2>3. iter = Body(iter)
    <3> HIDE DEF Body, gT
    <3> QED BY <2>2
  <2>4. \A s \in SUBSET T : iter[s] = IF s = {} THEN Amount(0) ELSE Plus(F[Any(s)], iter[s \ {Any(s)}])
    <3> HIDE DEF iter
    <3> QED BY <2>3
  <2> DEFINE Q == {s \in SUBSET T : iter[s] = g[s]}
  <2>5. ASSUME NEW s \in SUBSET T, \A u \in SUBSET s : u # s => u \in Q
        PROVE  s \in Q
    <3> HIDE DEF iter
    <3>1. CASE s = {}
      BY <1>4, <2>4, <3>1
    <3>2. CASE s # {}
      <4>1. s \ {Any(s)} \in SUBSET s /\ s \ {Any(s)} # s
        BY <3>2 DEF Any
      <4>2. iter[s \ {Any(s)}] = g[s \ {Any(s)}]
        BY <2>5, <4>1
      <4>3. QED
        BY <1>4, <2>4, <3>2, <4>2
    <3>3. QED
      BY <3>1, <3>2
  <2>6. IsFiniteSet(T)
    BY FS_Subset
  <2>7. \A s \in SUBSET T : s \in Q
    <3> HIDE DEF Q
    <3> QED BY <2>5, <2>6, SubsetInduction
  <2>8. QED
    BY <2>1, <2>7
<1>6. QED
  <2> SUFFICES ASSUME NEW T \in SUBSET S
               PROVE  /\ Sum(T, F) \in Rational
                      /\ T = {} => Sum(T, F) = Amount(0)
                      /\ T # {} => Sum(T, F) =
                                     Plus(F[Any(T)], Sum(T \ {Any(T)}, F))
    OBVIOUS
  <2>1. T \ {Any(T)} \in SUBSET S
    OBVIOUS
  <2>2. Sum(T, F) = g[T] /\ Sum(T \ {Any(T)}, F) = g[T \ {Any(T)}]
    BY <1>5, <2>1
  <2>3. g[T] \in Rational
    OBVIOUS
  <2>4. /\ T = {} => g[T] = Amount(0)
        /\ T # {} => g[T] = Plus(F[Any(T)], g[T \ {Any(T)}])
    BY <1>4
  <2>5. QED
    BY <2>2, <2>3, <2>4, Zenon

\* Nothing adds up to nothing.
LEMMA TotalEmpty == ASSUME NEW F PROVE Sum({}, F) = Amount(0)
BY FS_EmptySet, TotalIsFold

(* The order of the addends does not matter. *)
LEMMA TotalSplit ==
  ASSUME NEW S, IsFiniteSet(S), NEW F, \A x \in S : F[x] \in Rational, NEW x \in S
  PROVE  Sum(S, F) = Plus(F[x], Sum(S \ {x}, F))
<1> DEFINE sm == [T \in SUBSET S |-> Sum(T, F)]
           Q == {T \in SUBSET S : \A y \in T : sm[T] = Plus(F[y], sm[T \ {y}])}
<1>1. \A T \in SUBSET S : sm[T] \in Rational /\ (T # {} => sm[T] = Plus(F[Any(T)], sm[T \ {Any(T)}]))
  <2> SUFFICES ASSUME NEW T \in SUBSET S
               PROVE  sm[T] \in Rational /\ (T # {} => sm[T] = Plus(F[Any(T)], sm[T \ {Any(T)}]))
    OBVIOUS
  <2>1. sm[T] = Sum(T, F)
    OBVIOUS
  <2>2. sm[T \ {Any(T)}] = Sum(T \ {Any(T)}, F)
    OBVIOUS
  <2>3. /\ Sum(T, F) \in Rational
        /\ T # {} => Sum(T, F) =
                        Plus(F[Any(T)], Sum(T \ {Any(T)}, F))
    <3> HIDE DEF sm, Q
    <3>1. \A U \in SUBSET S :
           /\ Sum(U, F) \in Rational
           /\ U = {} => Sum(U, F) = Amount(0)
           /\ U # {} => Sum(U, F) =
                          Plus(F[Any(U)], Sum(U \ {Any(U)}, F))
      BY TotalIsFold, Zenon
    <3> QED BY <3>1, Zenon
  <2> HIDE DEF sm
  <2>4. QED
    BY <2>1, <2>2, <2>3, Zenon
<1> HIDE DEF sm
<1>2. ASSUME NEW T \in SUBSET S, \A U \in SUBSET T : U # T => U \in Q
      PROVE  T \in Q
  <2> SUFFICES ASSUME NEW y \in T PROVE sm[T] = Plus(F[y], sm[T \ {y}])
    OBVIOUS
  <2> DEFINE c == Any(T)
  <2>1. c \in T
    BY DEF Any
  <2>2. sm[T] = Plus(F[c], sm[T \ {c}])
    BY <1>1
  <2> HIDE DEF c
  <2>3. CASE y = c
    BY <2>2, <2>3
  <2>4. CASE y # c
    <3>1. sm[T \ {c}] = Plus(F[y], sm[(T \ {c}) \ {y}])
      BY <1>2, <2>1, <2>4
    <3>2. sm[T \ {y}] = Plus(F[c], sm[(T \ {y}) \ {c}])
      BY <1>2, <2>1, <2>4
    <3>3. (T \ {c}) \ {y} = (T \ {y}) \ {c}
      OBVIOUS
    <3>4. F[c] \in Rational /\ F[y] \in Rational /\ sm[(T \ {c}) \ {y}] \in Rational
      BY <1>1, <2>1
    <3>5. \A a, b, d \in Rational : Plus(a, Plus(b, d)) = Plus(b, Plus(a, d))
      BY PlusLaws
    <3>6. sm[T] = Plus(F[c], Plus(F[y], sm[(T \ {c}) \ {y}]))
      BY <2>2, <3>1, Zenon
    <3>7. sm[T] = Plus(F[y], Plus(F[c], sm[(T \ {c}) \ {y}]))
      BY <3>4, <3>5, <3>6, Zenon
    <3>8. QED
      BY <3>2, <3>3, <3>7, Zenon
  <2>5. QED
    BY <2>3, <2>4
<1>3. \A T \in SUBSET S : T \in Q
  <2> HIDE DEF Q
  <2> QED BY <1>2, SubsetInduction
<1>4. S \in Q
  <2> HIDE DEF Q
  <2> QED BY <1>3
<1>5. sm[S] = Plus(F[x], sm[S \ {x}])
  BY <1>4
<1>6. QED
  BY <1>5 DEF sm

(* A sum depends on the values at the indices only. *)
LEMMA TotalCongruence ==
  ASSUME NEW S, IsFiniteSet(S), NEW F, NEW G,
         \A x \in S : F[x] \in Rational /\ F[x] = G[x]
  PROVE  Sum(S, F) = Sum(S, G)
<1> DEFINE Q == {T \in SUBSET S : Sum(T, F) = Sum(T, G)}
<1>1. ASSUME NEW T \in SUBSET S, \A U \in SUBSET T : U # T => U \in Q
      PROVE  T \in Q
  <2>1. CASE T = {}
    BY <2>1, TotalEmpty
  <2>2. CASE T # {}
    <3>1. PICK x \in T : TRUE
      BY <2>2
    <3>2. T \ {x} \in SUBSET T /\ T \ {x} # T
      BY <3>1
    <3>3. Sum(T \ {x}, F) = Sum(T \ {x}, G)
      BY <1>1, <3>2
    <3>4. IsFiniteSet(T) /\ (\A y \in T : F[y] \in Rational) /\ (\A y \in T : G[y] \in Rational)
      BY FS_Subset
    <3> HIDE DEF Q
    <3>5. Sum(T, F) = Plus(F[x], Sum(T \ {x}, F))
      BY <3>1, <3>4, TotalSplit, Zenon
    <3>6. Sum(T, G) = Plus(G[x], Sum(T \ {x}, G))
      BY <3>1, <3>4, TotalSplit, Zenon
    <3>7. F[x] = G[x]
      BY <3>1
    <3>8. QED
      BY <3>3, <3>5, <3>6, <3>7, Zenon DEF Q
  <2>3. QED
    BY <2>1, <2>2
<1>2. \A T \in SUBSET S : T \in Q
  <2> HIDE DEF Q
  <2> QED BY <1>1, SubsetInduction
<1>3. S \in Q
  <2> HIDE DEF Q
  <2> QED BY <1>2
<1>4. QED
  BY <1>3

-----------------------------------------------------------------------------
(* The replay. *)

\* What the replay reads of an increment.
Entry(r) == r.id \in Nat /\ r.at \in Nat /\ r.qty \in Int /\ r.qty # 0 /\ r.fees \in Int /\ r.price \in Rational

\* Increments have an order of their own.
Chrono(S) == IsFiniteSet(S) /\ (\A r \in S : Entry(r)) /\ \A r, t \in S : r.id = t.id => r = t

Book == [net : Int, avg : Rational, realized : Rational]

\* Fewer increments have an order of their own too.
LEMMA ChronoSubset ==
  ASSUME NEW S, Chrono(S), NEW T \in SUBSET S
  PROVE  Chrono(T)
BY FS_Subset DEF Chrono

\* The latest increment is after all the others.
LEMMA LatestIs ==
  ASSUME NEW S, Chrono(S), S # {}
  PROVE  Latest(S) \in S /\ \A t \in S \ {Latest(S)} : Earlier(t, Latest(S)) /\ ~Earlier(Latest(S), t)
<1> DEFINE Last(T, r) == \A t \in T \ {r} : Earlier(t, r)
           Q == {T \in SUBSET S : T # {} => \E r \in T : Last(T, r)}
<1>1. ASSUME NEW r \in S, NEW t \in S, r # t
      PROVE  (Earlier(r, t) \/ Earlier(t, r)) /\ ~(Earlier(r, t) /\ Earlier(t, r))
  BY <1>1 DEF Earlier, Chrono, Entry
<1>2. ASSUME NEW r \in S, NEW t \in S, NEW u \in S, Earlier(r, t), Earlier(t, u)
      PROVE  Earlier(r, u)
  BY <1>2 DEF Earlier, Chrono, Entry
<1>3. ASSUME NEW T \in SUBSET S, \A U \in SUBSET T : U # T => U \in Q
      PROVE  T \in Q
  <2> SUFFICES ASSUME T # {} PROVE \E r \in T : Last(T, r)
    OBVIOUS
  <2>1. PICK r \in T : TRUE
    OBVIOUS
  <2>2. CASE T = {r}
    BY <2>2
  <2>3. CASE T # {r}
    <3>1. T \ {r} \in SUBSET T /\ T \ {r} # T /\ T \ {r} # {}
      BY <2>1, <2>3
    <3>2. PICK t \in T \ {r} : Last(T \ {r}, t)
      BY <1>3, <3>1
    <3>3. CASE Earlier(r, t)
      BY <3>2, <3>3
    <3>4. CASE Earlier(t, r)
      <4>1. \A u \in T \ {r} : Earlier(u, r)
        BY <1>2, <3>2, <3>4
      <4> QED BY <4>1
    <3> QED BY <1>1, <3>2, <3>3, <3>4
  <2> QED BY <2>2, <2>3
<1>4. IsFiniteSet(S)
  BY DEF Chrono
<1>5. \A T \in SUBSET S : T \in Q
  <2> HIDE DEF Q
  <2> QED BY <1>3, <1>4, SubsetInduction
<1>6. \E r \in S : Last(S, r)
  <2> HIDE DEF Last
  <2> QED BY <1>5
<1>7. Latest(S) \in S /\ Last(S, Latest(S))
  BY <1>6 DEF Latest
<1> QED BY <1>1, <1>7

\* A replay starts from a book.
LEMMA FlatBook == Flat \in Book
BY AmountRational DEF Flat, Book

\* What an increment does to a book, in rationals.
LEMMA BookedParts ==
  ASSUME NEW acc \in Book, NEW r, Entry(r)
  PROVE  /\ Gain(acc, r) \in Rational /\ Average(acc, r) \in Rational
         /\ Booked(r, acc) = [net |-> acc.net + r.qty, avg |-> Average(acc, r),
                              realized |-> Plus(acc.realized, Gain(acc, r))]
         /\ Booked(r, acc) \in Book
<1>0. acc.net \in Int /\ acc.avg \in Rational /\ acc.realized \in Rational
      /\ r.qty \in Int /\ r.qty # 0 /\ r.price \in Rational /\ r.fees \in Int
  BY DEF Entry, Book
<1>1. \A x \in Rational, n \in Int : Scale(x, n) \in Rational
  <2> SUFFICES ASSUME NEW x \in Rational, NEW n \in Int PROVE Scale(x, n) \in Rational
    OBVIOUS
  <2>1. PICK D \in Positive, X \in Int, Y \in Int, Z \in Int : Is(x, X, D) /\ Is(x, Y, D) /\ Is(x, Z, D)
    BY Common
  <2> QED BY <2>1, IsScale
<1>2. \A x, y \in Rational : Minus(x, y) \in Rational
  <2> SUFFICES ASSUME NEW x \in Rational, NEW y \in Rational PROVE Minus(x, y) \in Rational
    OBVIOUS
  <2>1. PICK D \in Positive, X \in Int, Y \in Int, Z \in Int : Is(x, X, D) /\ Is(y, Y, D) /\ Is(y, Z, D)
    BY Common
  <2> QED BY <2>1, IsPlus
<1>3. \A x \in Rational, n \in Positive : Over(x, n) \in Rational
  <2> SUFFICES ASSUME NEW x \in Rational, NEW n \in Positive PROVE Over(x, n) \in Rational
    OBVIOUS
  <2>1. x[1] \in Int /\ x[2] \in Positive
    BY RationalParts
  <2>2. x[2] * n \in Positive
    <3>1. x[2] * n >= 1
      BY <2>1 DEF Positive
    <3> QED BY <2>1, <3>1 DEF Positive
  <2> QED BY <2>1, <2>2, FracValue DEF Over
<1>4. \A n \in Int : Amount(n) \in Rational
  BY AmountRational
<1>5. Gain(acc, r) \in Rational
  <2>1. Closing(acc, r) * (IF acc.net > 0 THEN 1 ELSE -1) \in Int /\ -r.fees \in Int
    BY <1>0 DEF Closing, Abs
  <2> QED BY <1>0, <1>1, <1>2, <1>4, <2>1, PlusLaws DEF Gain
<1>6. Average(acc, r) \in Rational
  <2>1. Abs(acc.net) + Abs(r.qty) \in Positive /\ Abs(acc.net) \in Int /\ Abs(r.qty) \in Int
    BY <1>0 DEF Abs, Positive
  <2> DEFINE m == Abs(acc.net)
             n == Abs(r.qty)
             p == Plus(Scale(acc.avg, m), Scale(r.price, n))
  <2>2. p \in Rational
    BY <1>0, <1>1, <2>1, PlusLaws
  <2>3. Over(p, m + n) \in Rational
    <3> HIDE DEF p
    <3> QED BY <1>3, <2>1, <2>2
  <2>4. Amount(0) \in Rational
    BY <1>4
  <2>5. \/ Average(acc, r) = Over(p, m + n) \/ Average(acc, r) = r.price
        \/ Average(acc, r) = Amount(0) \/ Average(acc, r) = acc.avg
    BY DEF Average
  <2> HIDE DEF p, m, n
  <2> QED BY <1>0, <2>3, <2>4, <2>5, Zenon
<1>7. Booked(r, acc) = [net |-> acc.net + r.qty, avg |-> Average(acc, r),
                        realized |-> Plus(acc.realized, Gain(acc, r))]
  BY DEF Booked
<1> DEFINE a == Average(acc, r)
           g == Gain(acc, r)
<1>8. \A x, y \in Rational : Plus(x, y) \in Rational
  BY PlusLaws
<1>9. Booked(r, acc) \in Book
  <2>1. a \in Rational /\ g \in Rational
    BY <1>5, <1>6
  <2>2. Booked(r, acc) = [net |-> acc.net + r.qty, avg |-> a, realized |-> Plus(acc.realized, g)]
    BY <1>7
  <2> HIDE DEF a, g
  <2>3. Plus(acc.realized, g) \in Rational
    BY <1>0, <1>8, <2>1
  <2> QED BY <1>0, <2>1, <2>2, <2>3 DEF Book
<1> HIDE DEF a, g
<1> QED BY <1>5, <1>6, <1>7, <1>9

\* The replay is a recursion over the sets of increments.
LEMMA ReplayIsFold ==
  ASSUME NEW S, Chrono(S)
  PROVE  \A T \in SUBSET S :
           /\ Replay(T) \in Book
           /\ T = {} => Replay(T) = Flat
           /\ T # {} => Replay(T) = Booked(Latest(T), Replay(T \ {Latest(T)}))
<1>0. IsFiniteSet(S)
  BY DEF Chrono
<1> DEFINE pick == [T \in SUBSET S |-> Latest(T)]
           step == [p \in S \X Book |-> Booked(p[1], p[2])]
<1>1. \A T \in SUBSET S : T # {} => Latest(T) \in T /\ pick[T] = Latest(T)
  BY LatestIs, ChronoSubset
<1>2. step \in [S \X Book -> Book]
  BY BookedParts DEF Chrono
<1>3. PICK g \in [SUBSET S -> Book] : IsFold(g, S, Flat, step, pick)
  <2> HIDE DEF pick, step
  <2>1. Flat \in Book /\ Picks(pick, S)
    BY <1>1, FlatBook DEF Picks
  <2> QED BY <1>0, <1>2, <2>1, FoldExists, ZenonT(30)
<1>4. \A T \in SUBSET S : g[T] = IF T = {} THEN Flat ELSE Booked(Latest(T), g[T \ {Latest(T)}])
  <2> SUFFICES ASSUME NEW T \in SUBSET S, T # {}
               PROVE  g[T] = Booked(Latest(T), g[T \ {Latest(T)}])
    BY <1>3 DEF IsFold
  <2>1. Latest(T) \in S /\ g[T \ {Latest(T)}] \in Book
    BY <1>1
  <2>2. g[T] = step[<<Latest(T), g[T \ {Latest(T)}]>>]
    BY <1>1, <1>3 DEF IsFold
  <2>3. QED
    BY <2>1, <2>2
<1> HIDE DEF pick, step
<1>5. ASSUME NEW T \in SUBSET S PROVE Replay(T) = g[T]
  <2> DEFINE Body(it) == [s \in SUBSET T |-> IF s = {} THEN Flat ELSE Booked(Latest(s), it[s \ {Latest(s)}])]
             iter == CHOOSE it : it = Body(it)
             gT == [s \in SUBSET T |-> g[s]]
  <2>0. \A s \in SUBSET T : s # {} => Latest(s) \in s
    BY <1>1
  <2>1. Replay(T) = iter[T]
    BY DEF Replay, MapThenFoldSet
  <2>2. gT = Body(gT)
    <3>1. \A s \in SUBSET T : gT[s] = IF s = {} THEN Flat ELSE Booked(Latest(s), gT[s \ {Latest(s)}])
      BY <1>4, <2>0
    <3> HIDE DEF gT
    <3>2. QED
      BY <3>1 DEF gT
  <2>3. iter = Body(iter)
    <3> HIDE DEF Body, gT
    <3> QED BY <2>2
  <2>4. \A s \in SUBSET T : iter[s] = IF s = {} THEN Flat ELSE Booked(Latest(s), iter[s \ {Latest(s)}])
    <3> HIDE DEF iter
    <3> QED BY <2>3
  <2> DEFINE Q == {s \in SUBSET T : iter[s] = g[s]}
  <2>5. ASSUME NEW s \in SUBSET T, \A u \in SUBSET s : u # s => u \in Q
        PROVE  s \in Q
    <3> HIDE DEF iter
    <3>1. CASE s = {}
      BY <1>4, <2>4, <3>1
    <3>2. CASE s # {}
      <4>1. s \ {Latest(s)} \in SUBSET s /\ s \ {Latest(s)} # s
        BY <2>0, <3>2
      <4>2. iter[s \ {Latest(s)}] = g[s \ {Latest(s)}]
        BY <2>5, <4>1
      <4>3. QED
        BY <1>4, <2>4, <3>2, <4>2
    <3>3. QED
      BY <3>1, <3>2
  <2>6. IsFiniteSet(T)
    BY <1>0, FS_Subset
  <2>7. \A s \in SUBSET T : s \in Q
    <3> HIDE DEF Q
    <3> QED BY <2>5, <2>6, SubsetInduction
  <2>8. QED
    BY <2>1, <2>7
<1>6. QED
  <2> SUFFICES ASSUME NEW T \in SUBSET S
               PROVE  /\ Replay(T) \in Book
                      /\ T = {} => Replay(T) = Flat
                      /\ T # {} => Replay(T) = Booked(Latest(T), Replay(T \ {Latest(T)}))
    OBVIOUS
  <2>1. T \ {Latest(T)} \in SUBSET S
    OBVIOUS
  <2>2. Replay(T) = g[T] /\ Replay(T \ {Latest(T)}) = g[T \ {Latest(T)}]
    BY <1>5, <2>1
  <2>3. g[T] \in Book
    OBVIOUS
  <2>4. /\ T = {} => g[T] = Flat
        /\ T # {} => g[T] = Booked(Latest(T), g[T \ {Latest(T)}])
    BY <1>4
  <2>5. QED
    BY <2>2, <2>3, <2>4, Zenon

-----------------------------------------------------------------------------
(* Rewriting increments. *)

OneToOne(g, S) == \A x, y \in S : g[x] = g[y] => x = y

\* An image under a one-to-one function is as large as the set.
LEMMA ImageFinite ==
  ASSUME NEW S, IsFiniteSet(S), NEW g, OneToOne(g, S)
  PROVE  IsFiniteSet({g[x] : x \in S}) /\ Cardinality({g[x] : x \in S}) = Cardinality(S)
<1> DEFINE T == {g[x] : x \in S}
           f == [x \in S |-> g[x]]
<1>1. f \in [S -> T] /\ (\A x, y \in S : f[x] = f[y] => x = y) /\ \A t \in T : \E x \in S : f[x] = t
  BY DEF OneToOne
<1> HIDE DEF f, T
<1>2. f \in Bijection(S, T)
  BY <1>1 DEF Bijection, Injection, Surjection, IsInjective
<1>3. ExistsBijection(S, T)
  BY <1>2 DEF ExistsBijection
<1> QED BY <1>3, FS_Bijection DEF T

\* A sum follows its addends to their images.
LEMMA TotalImage ==
  ASSUME NEW S, IsFiniteSet(S), NEW g, OneToOne(g, S), NEW F, NEW G,
         \A x \in S : F[x] \in Rational /\ G[g[x]] = F[x]
  PROVE  Sum({g[x] : x \in S}, G) = Sum(S, F)
<1> DEFINE Img(T) == {g[x] : x \in T}
           Q == {T \in SUBSET S : Sum(Img(T), G) = Sum(T, F)}
<1>1. ASSUME NEW T \in SUBSET S, \A U \in SUBSET T : U # T => U \in Q
      PROVE  T \in Q
  <2>1. CASE T = {}
    <3>1. Img(T) = {}
      BY <2>1
    <3>2. Sum({}, G) = Amount(0) /\ Sum({}, F) = Amount(0)
      BY TotalEmpty
    <3> QED BY <2>1, <3>1, <3>2
  <2>2. CASE T # {}
    <3>1. PICK x \in T : TRUE
      BY <2>2
    <3>2. T \ {x} \in SUBSET T /\ T \ {x} # T
      BY <3>1
    <3>3. Sum(Img(T \ {x}), G) = Sum(T \ {x}, F)
      BY <1>1, <3>2
    <3>4. IsFiniteSet(T) /\ (\A y \in T : F[y] \in Rational) /\ OneToOne(g, T)
      BY FS_Subset DEF OneToOne
    <3>5. IsFiniteSet(Img(T)) /\ (\A y \in Img(T) : G[y] \in Rational) /\ g[x] \in Img(T)
      <4>1. IsFiniteSet(Img(T))
        BY <3>4, ImageFinite
      <4> QED BY <4>1
    <3>6. Img(T) \ {g[x]} = Img(T \ {x})
      BY <3>1, <3>4 DEF OneToOne
    <3>7. G[g[x]] = F[x]
      BY <3>1
    <3> HIDE DEF Q, Img
    <3>8. Sum(T, F) = Plus(F[x], Sum(T \ {x}, F))
      BY <3>1, <3>4, TotalSplit, Zenon
    <3>9. Sum(Img(T), G) = Plus(G[g[x]], Sum(Img(T) \ {g[x]}, G))
      BY <3>5, TotalSplit, Zenon
    <3> QED
      BY <3>3, <3>6, <3>7, <3>8, <3>9, Zenon DEF Q
  <2>3. QED
    BY <2>1, <2>2
<1>2. \A T \in SUBSET S : T \in Q
  <2> HIDE DEF Q
  <2> QED BY <1>1, SubsetInduction
<1>3. S \in Q
  <2> HIDE DEF Q
  <2> QED BY <1>2
<1>4. QED
  BY <1>3

\* Sums are rationals.
LEMMA TotalType ==
  ASSUME NEW S, IsFiniteSet(S), NEW F, \A x \in S : F[x] \in Rational
  PROVE  Sum(S, F) \in Rational
BY TotalIsFold

\* One more addend.
LEMMA TotalInsert ==
  ASSUME NEW S, IsFiniteSet(S), NEW F, NEW x, x \notin S,
         \A y \in S \cup {x} : F[y] \in Rational
  PROVE  Sum(S \cup {x}, F) = Plus(F[x], Sum(S, F))
<1>1. IsFiniteSet(S \cup {x})
  BY FS_AddElement
<1>2. (S \cup {x}) \ {x} = S /\ x \in S \cup {x}
  OBVIOUS
<1>3. Sum(S \cup {x}, F) = Plus(F[x], Sum((S \cup {x}) \ {x}, F))
  BY <1>1, <1>2, TotalSplit, Zenon
<1>4. QED
  BY <1>2, <1>3, Zenon

\* The same to the replay.
SameEntry(r, t) == r.id = t.id /\ r.at = t.at /\ r.qty = t.qty /\ r.fees = t.fees /\ r.price = t.price

\* Increments that are the same to the replay are booked the same.
LEMMA SameBooked ==
  ASSUME NEW r, NEW t, NEW acc, r.qty = t.qty, r.fees = t.fees, r.price = t.price
  PROVE  Gain(acc, r) = Gain(acc, t) /\ Booked(r, acc) = Booked(t, acc)
<1>1. Opens(acc, r) = Opens(acc, t) /\ Closing(acc, r) = Closing(acc, t)
  BY DEF Opens, Closing
<1>2. Gain(acc, r) = Gain(acc, t)
  BY <1>1, Zenon DEF Gain
<1>3. Average(acc, r) = Average(acc, t)
  BY <1>1, Zenon DEF Average
<1> QED BY <1>2, <1>3, Zenon DEF Booked

\* Rewritten increments are in the same order.
LEMMA SameOrder ==
  ASSUME NEW S, NEW g, \A r \in S : SameEntry(g[r], r)
  PROVE  \A r, t \in S : Earlier(g[r], g[t]) <=> Earlier(r, t)
BY DEF Earlier, SameEntry

LEMMA ChronoImage ==
  ASSUME NEW S, Chrono(S), NEW g, \A r \in S : SameEntry(g[r], r)
  PROVE  Chrono({g[r] : r \in S}) /\ OneToOne(g, S)
<1>1. OneToOne(g, S)
  BY DEF OneToOne, Chrono, SameEntry
<1>2. IsFiniteSet({g[r] : r \in S})
  BY <1>1, ImageFinite DEF Chrono
<1>3. \A r \in S : Entry(g[r])
  BY DEF Chrono, SameEntry, Entry
<1>4. \A r, t \in S : g[r].id = g[t].id => g[r] = g[t]
  BY DEF Chrono, SameEntry
<1> QED BY <1>1, <1>2, <1>3, <1>4 DEF Chrono

\* The replay reads nothing of an increment but what it books, and the order of the increments.
LEMMA ReplayAlong ==
  ASSUME NEW S, NEW g, Chrono(S), Chrono({g[r] : r \in S}), OneToOne(g, S),
         \A r, t \in S : Earlier(g[r], g[t]) <=> Earlier(r, t),
         \A r \in S : g[r].qty = r.qty /\ g[r].fees = r.fees /\ g[r].price = r.price
  PROVE  Replay({g[r] : r \in S}) = Replay(S)
<1> DEFINE Img(T) == {g[r] : r \in T}
           Q == {T \in SUBSET S : Replay(Img(T)) = Replay(T)}
<1>1. ASSUME NEW T \in SUBSET S, \A U \in SUBSET T : U # T => U \in Q
      PROVE  T \in Q
  <2>0. Chrono(T) /\ OneToOne(g, T)
    BY ChronoSubset DEF OneToOne
  <2>1. Chrono(Img(T))
    <3>1. Img(T) \in SUBSET Img(S)
      OBVIOUS
    <3>2. Chrono(Img(S))
      OBVIOUS
    <3> HIDE DEF Img
    <3> QED BY <3>1, <3>2, ChronoSubset
  <2>2. Img(T) \in SUBSET Img(T) /\ T \in SUBSET T
    OBVIOUS
  <2>3. CASE T = {}
    <3>1. Img(T) = T
      BY <2>3
    <3> QED BY <3>1
  <2>4. CASE T # {}
    <3> DEFINE r == Latest(T)
    <3>1. r \in T /\ \A t \in T \ {r} : Earlier(t, r) /\ ~Earlier(r, t)
      BY <2>0, <2>4, LatestIs
    <3>2. Img(T) # {}
      BY <2>4
    <3>3. Latest(Img(T)) \in Img(T) /\ \A t \in Img(T) \ {Latest(Img(T))} : Earlier(t, Latest(Img(T)))
      <4> HIDE DEF Img
      <4> QED BY <2>1, <3>2, LatestIs
    <3> HIDE DEF r
    <3>4. Latest(Img(T)) = g[r]
      <4>1. PICK u \in T : Latest(Img(T)) = g[u]
        BY <3>3
      <4>2. SUFFICES ASSUME u # r PROVE FALSE
        BY <4>1
      <4>3. g[r] # g[u]
        BY <2>0, <3>1, <4>2 DEF OneToOne
      <4>4. Earlier(g[r], g[u])
        BY <3>1, <3>3, <4>1, <4>3
      <4>5. Earlier(r, u)
        BY <3>1, <4>4
      <4> QED BY <3>1, <4>2, <4>5
    <3>5. Img(T) \ {g[r]} = Img(T \ {r})
      BY <2>0, <3>1 DEF OneToOne
    <3>6. Replay(Img(T \ {r})) = Replay(T \ {r})
      BY <1>1, <3>1
    <3>7. g[r].qty = r.qty /\ g[r].fees = r.fees /\ g[r].price = r.price
      BY <3>1
    <3> HIDE DEF Img, Q
    <3>8. Replay(T) = Booked(r, Replay(T \ {r}))
      BY <2>0, <2>2, <2>4, ReplayIsFold DEF r
    <3>9. Replay(Img(T)) = Booked(Latest(Img(T)), Replay(Img(T) \ {Latest(Img(T))}))
      BY <2>1, <2>2, <3>2, ReplayIsFold
    <3>10. Booked(g[r], Replay(T \ {r})) = Booked(r, Replay(T \ {r}))
      BY <3>7, SameBooked
    <3>11. Replay(Img(T)) = Replay(T)
      BY <3>4, <3>5, <3>6, <3>8, <3>9, <3>10, Zenon
    <3> QED BY <3>11 DEF Q
  <2> QED BY <2>3, <2>4
<1>2. IsFiniteSet(S)
  BY DEF Chrono
<1>3. \A T \in SUBSET S : T \in Q
  <2> HIDE DEF Q
  <2> QED BY <1>1, <1>2, SubsetInduction
<1>4. S \in Q
  <2> HIDE DEF Q
  <2> QED BY <1>3
<1> QED BY <1>4

\* Rewriting what the replay does not read does not change the replay.
LEMMA ReplayImage ==
  ASSUME NEW S, NEW g, Chrono(S), \A r \in S : SameEntry(g[r], r)
  PROVE  Replay({g[r] : r \in S}) = Replay(S)
<1>1. Chrono({g[r] : r \in S}) /\ OneToOne(g, S)
  BY ChronoImage
<1>2. \A r, t \in S : Earlier(g[r], g[t]) <=> Earlier(r, t)
  BY SameOrder
<1>3. \A r \in S : g[r].qty = r.qty /\ g[r].fees = r.fees /\ g[r].price = r.price
  BY DEF SameEntry
<1> QED BY <1>1, <1>2, <1>3, ReplayAlong

\* What the increments before one become.
LEMMA BeforeImage ==
  ASSUME NEW S, Chrono(S), NEW g, (\A r \in S : SameEntry(g[r], r)), NEW r \in S
  PROVE  Replay(Before({g[t] : t \in S}, g[r])) = Replay(Before(S, r))
<1>1. Before({g[t] : t \in S}, g[r]) = {g[t] : t \in Before(S, r)}
  BY SameOrder DEF Before
<1>2. Before(S, r) \in SUBSET S
  BY DEF Before
<1>3. Chrono(Before(S, r)) /\ \A t \in Before(S, r) : SameEntry(g[t], t)
  BY <1>2, ChronoSubset
<1> QED BY <1>1, <1>3, ReplayImage

-----------------------------------------------------------------------------
(* The double entry of average cost. *)

\* Average cost in units of a common denominator: A, P and B are the average, the price
\* and the new average of a holding n and an increment q, K the quantity that closes.
Costing(n, q, A, P, B, K) ==
  \/ /\ n = 0 \/ (n > 0) = (q > 0)
     /\ K = 0 /\ B * (Abs(n) + Abs(q)) = A * Abs(n) + P * Abs(q)
  \/ K = -q /\ (B = A \/ n + q = 0)
  \/ K = n /\ B = P

\* What an increment gains is what the holding stands for less, and what came in.
LEMMA Units ==
  ASSUME NEW n \in Int, NEW q \in Int, NEW A \in Int, NEW P \in Int, NEW B \in Int, NEW K \in Int,
         q # 0, Costing(n, q, A, P, B, K)
  PROVE  A * n + (P - A) * K = B * (n + q) - P * q
<1>1. CASE /\ n = 0 \/ (n > 0) = (q > 0)
           /\ K = 0 /\ B * (Abs(n) + Abs(q)) = A * Abs(n) + P * Abs(q)
  <2>1. (P - A) * K = 0
    BY <1>1
  <2>2. B * (n + q) = A * n + P * q
    <3>1. CASE n >= 0 /\ q > 0
      BY <1>1, <3>1 DEF Abs
    <3>2. CASE n <= 0 /\ q < 0
      <4>1. Abs(n) = -n /\ Abs(q) = -q
        BY <3>2 DEF Abs
      <4>2. B * ((-n) + (-q)) = A * (-n) + P * (-q)
        BY <1>1, <4>1
      <4>3. B * ((-n) + (-q)) = -(B * (n + q)) /\ A * (-n) + P * (-q) = -(A * n + P * q)
        OBVIOUS
      <4>4. B * (n + q) \in Int /\ A * n + P * q \in Int
        OBVIOUS
      <4> QED BY <4>2, <4>3, <4>4
    <3> QED BY <1>1, <3>1, <3>2
  <2> QED BY <2>1, <2>2
<1>2. CASE K = -q /\ (B = A \/ n + q = 0)
  <2>1. B * (n + q) = A * (n + q)
    <3>1. CASE n + q = 0
      <4>1. B * 0 = 0 /\ A * 0 = 0
        OBVIOUS
      <4> QED BY <3>1, <4>1
    <3> QED BY <1>2, <3>1
  <2>2. (P - A) * K = -(P * q) + A * q
    BY <1>2
  <2>3. A * (n + q) = A * n + A * q
    OBVIOUS
  <2> QED BY <2>1, <2>2, <2>3
<1>3. CASE K = n /\ B = P
  <2>1. (P - A) * K = P * n - A * n /\ B * (n + q) = P * n + P * q
    BY <1>3
  <2> QED BY <2>1
<1> QED BY <1>1, <1>2, <1>3 DEF Costing

\* A denominator for the average, the price and two sums, in which the new average has one too.
LEMMA Denominator ==
  ASSUME NEW acc \in Book, NEW r, Entry(r), NEW w \in Rational, NEW f \in Rational
  PROVE  \E D \in Positive, A \in Int, P \in Int, W \in Int, F \in Int, B \in Int :
           /\ Is(acc.avg, A, D) /\ Is(r.price, P, D) /\ Is(w, W, D) /\ Is(f, F, D)
           /\ Is(Average(acc, r), B, D)
<1>0. acc.avg \in Rational /\ r.price \in Rational /\ Average(acc, r) \in Rational /\ 1 \in Positive
  BY BookedParts DEF Book, Entry, Positive
<1>1. PICK D \in Positive, A \in Int, P \in Int, W \in Int :
        Is(acc.avg, A, D) /\ Is(r.price, P, D) /\ Is(w, W, D)
  BY <1>0, Common
<1>2. PICK k \in Positive, F \in Int :
        /\ D * k \in Positive /\ Is(f, F * 1, D * k)
        /\ \A y \in Rational, Y \in Int : Is(y, Y, D) => Y * k \in Int /\ Is(y, Y * k, D * k)
  BY <1>0, Finer
<1> DEFINE D2 == D * k
           A2 == A * k
           P2 == P * k
           W2 == W * k
           F2 == F * 1
<1>3. /\ D2 \in Positive /\ A2 \in Int /\ P2 \in Int /\ W2 \in Int /\ F2 \in Int
      /\ Is(acc.avg, A2, D2) /\ Is(r.price, P2, D2) /\ Is(w, W2, D2) /\ Is(f, F2, D2)
  BY <1>0, <1>1, <1>2
<1> HIDE DEF D2, A2, P2, W2, F2
<1> DEFINE v == Average(acc, r)
<1>4. v \in Rational
  BY <1>0
<1> HIDE DEF v
<1>5. PICK j \in Positive, B \in Int :
        /\ D2 * j \in Positive /\ Is(v, B * 1, D2 * j)
        /\ \A y \in Rational, Y \in Int : Is(y, Y, D2) => Y * j \in Int /\ Is(y, Y * j, D2 * j)
  BY <1>0, <1>3, <1>4, Finer
<1> DEFINE D3 == D2 * j
           A3 == A2 * j
           P3 == P2 * j
           W3 == W2 * j
           F3 == F2 * j
           B3 == B * 1
<1>6. /\ D3 \in Positive /\ A3 \in Int /\ P3 \in Int /\ W3 \in Int /\ F3 \in Int /\ B3 \in Int
      /\ Is(acc.avg, A3, D3) /\ Is(r.price, P3, D3) /\ Is(w, W3, D3) /\ Is(f, F3, D3) /\ Is(v, B3, D3)
  BY <1>0, <1>3, <1>5
<1> HIDE DEF D3, A3, P3, W3, F3, B3
<1> QED BY <1>6 DEF v

\* Dividing, and what it gives.
LEMMA OverIs ==
  ASSUME NEW D \in Positive, NEW x \in Rational, NEW n \in Positive, NEW X \in Int, NEW Z \in Int,
         Is(x, X, D), Is(Over(x, n), Z, D)
  PROVE  Z * n = X
<1>1. 1 \in Positive
  BY DEF Positive
<1>2. PICK k \in Positive, Y \in Int :
        /\ D * k \in Positive /\ Is(x, Y * n, D * k)
        /\ \A y \in Rational, U \in Int : Is(y, U, D) => U * k \in Int /\ Is(y, U * k, D * k)
  BY Finer
<1>3. Over(x, n) \in Rational /\ Is(Over(x, n), Y, D * k)
  BY <1>2, IsOver
<1>4. Is(Over(x, n), Z * k, D * k) /\ Is(x, X * k, D * k) /\ Z * k \in Int /\ X * k \in Int
  BY <1>2, <1>3
<1>5. Y * n \in Int
  BY DEF Positive
<1>6. Y = Z * k /\ Y * n = X * k
  BY <1>2, <1>3, <1>4, <1>5, IsUnique
<1>7. (Z * n) * k = X * k
  <2>1. (Z * n) * k = (Z * k) * n
    BY DEF Positive
  <2> QED BY <1>6, <2>1
<1>8. Z * n \in Int
  BY DEF Positive
<1> QED BY <1>7, <1>8, Cancel

\* The quantity an increment closes, with the sign of the holding.
Closed(acc, r) == IF Opens(acc, r) THEN 0 ELSE Closing(acc, r) * (IF acc.net > 0 THEN 1 ELSE -1)

\* The average after an increment, in units of the common denominator.
LEMMA AverageUnits ==
  ASSUME NEW acc \in Book, NEW r, Entry(r),
         NEW D \in Positive, NEW A \in Int, NEW P \in Int, NEW B \in Int,
         Is(acc.avg, A, D), Is(r.price, P, D), Is(Average(acc, r), B, D)
  PROVE  /\ Closed(acc, r) \in Int
         /\ A * acc.net + (P - A) * Closed(acc, r) = B * (acc.net + r.qty) - P * r.qty
<1> DEFINE n == acc.net
           q == r.qty
           K == Closed(acc, r)
<1>0. n \in Int /\ q \in Int /\ q # 0 /\ acc.avg \in Rational /\ r.price \in Rational
  BY DEF Entry, Book
<1>1. K \in Int
  BY <1>0 DEF Closed, Closing, Abs
<1>2. Costing(n, q, A, P, B, K)
  <2>1. CASE Opens(acc, r)
    <3> DEFINE m == Abs(n)
               l == Abs(q)
               p == Plus(Scale(acc.avg, m), Scale(r.price, l))
    <3>1. m \in Int /\ l \in Int /\ m + l \in Positive
      BY <1>0 DEF Abs, Positive
    <3>2. Average(acc, r) = Over(p, m + l)
      BY <2>1 DEF Average
    <3> HIDE DEF m, l
    <3>3. /\ Scale(acc.avg, m) \in Rational /\ Is(Scale(acc.avg, m), A * m, D)
          /\ Scale(r.price, l) \in Rational /\ Is(Scale(r.price, l), P * l, D)
      BY <1>0, <3>1, IsScale
    <3>4. A * m \in Int /\ P * l \in Int /\ A * m + P * l \in Int
      BY <3>1
    <3>5. p \in Rational /\ Is(p, A * m + P * l, D)
      BY <3>3, <3>4, IsPlus
    <3> HIDE DEF p
    <3>6. B * (m + l) = A * m + P * l
      BY <3>1, <3>2, <3>4, <3>5, OverIs
    <3>7. K = 0 /\ (n = 0 \/ (n > 0) = (q > 0))
      BY <2>1 DEF Closed, Opens
    <3> QED BY <3>6, <3>7 DEF m, l, Costing
  <2>2. CASE ~Opens(acc, r) /\ Abs(q) > Abs(n)
    <3>1. Average(acc, r) = r.price
      BY <2>2 DEF Average
    <3>2. B = P
      BY <1>0, <3>1, IsUnique
    <3>3. K = n
      BY <1>0, <2>2 DEF Closed, Closing, Opens, Abs
    <3> QED BY <3>2, <3>3 DEF Costing
  <2>3. CASE ~Opens(acc, r) /\ ~(Abs(q) > Abs(n))
    <3>1. K = -q
      BY <1>0, <2>3 DEF Closed, Closing, Opens, Abs
    <3>2. CASE n + q = 0
      BY <3>1, <3>2 DEF Costing
    <3>3. CASE n + q # 0
      <4>1. Average(acc, r) = acc.avg
        BY <2>3, <3>3 DEF Average
      <4>2. B = A
        BY <1>0, <4>1, IsUnique
      <4> QED BY <3>1, <4>2 DEF Costing
    <3> QED BY <3>2, <3>3
  <2> QED BY <2>1, <2>2, <2>3
<1> HIDE DEF n, q, K
<1>3. A * n + (P - A) * K = B * (n + q) - P * q
  BY <1>0, <1>1, <1>2, Units
<1> QED BY <1>1, <1>3 DEF n, q, K

\* What an increment gains, in units of the common denominator.
LEMMA GainUnits ==
  ASSUME NEW acc \in Book, NEW r, Entry(r), Closed(acc, r) \in Int,
         NEW D \in Positive, NEW A \in Int, NEW P \in Int, Is(acc.avg, A, D), Is(r.price, P, D)
  PROVE  Is(Gain(acc, r), (-r.fees) * D + (P - A) * Closed(acc, r), D)
<1> DEFINE f == -r.fees
           K == Closed(acc, r)
<1>0. f \in Int /\ K \in Int /\ acc.avg \in Rational /\ r.price \in Rational
  BY DEF Entry, Book
<1>1. Amount(f) \in Rational /\ Is(Amount(f), f * D, D) /\ f * D \in Int
  <2>1. f * D \in Int
    BY <1>0 DEF Positive
  <2> HIDE DEF f
  <2> QED BY <1>0, <2>1, IsAmount
<1>2. CASE Opens(acc, r)
  <2>1. K = 0 /\ Gain(acc, r) = Amount(f)
    BY <1>2 DEF Closed, Gain
  <2> HIDE DEF f, K
  <2>2. (P - A) * K = 0 /\ f * D + 0 = f * D
    BY <1>1, <2>1
  <2>3. Is(Gain(acc, r), f * D + (P - A) * K, D)
    BY <1>1, <2>1, <2>2
  <2> QED BY <2>3 DEF f, K
<1>3. CASE ~Opens(acc, r)
  <2> DEFINE m == Minus(r.price, acc.avg)
             s == Scale(m, K)
  <2>1. Gain(acc, r) = Plus(Amount(f), s)
    BY <1>3 DEF Gain, Closed
  <2>2. m \in Rational /\ Is(m, P - A, D)
    BY <1>0, IsPlus
  <2>7. P - A \in Int
    OBVIOUS
  <2> HIDE DEF f, K, m
  <2>3. s \in Rational /\ Is(s, (P - A) * K, D)
    BY <1>0, <2>2, <2>7, IsScale
  <2>4. (P - A) * K \in Int
    BY <1>0
  <2> HIDE DEF s
  <2>5. Is(Plus(Amount(f), s), f * D + (P - A) * K, D)
    BY <1>1, <2>3, <2>4, IsPlus
  <2>6. Is(Gain(acc, r), f * D + (P - A) * K, D)
    BY <2>1, <2>5
  <2> QED BY <2>6 DEF f, K
<1> QED BY <1>2, <1>3

\* The books balance over the costs w and the charges f.
Balances(acc, w, f) == acc.realized = Minus(Scale(acc.avg, acc.net), Plus(w, f))

\* Booking an increment keeps the books balanced.
LEMMA BookedBalances ==
  ASSUME NEW acc \in Book, NEW r, Entry(r), NEW w \in Rational, NEW f \in Rational, Balances(acc, w, f)
  PROVE  Balances(Booked(r, acc), Plus(Worth(r), w), Plus(Amount(r.fees), f))
<1> DEFINE n == acc.net
           q == r.qty
           K == Closed(acc, r)
           c == r.fees
           v == Average(acc, r)
           g == Gain(acc, r)
<1>0. /\ n \in Int /\ q \in Int /\ c \in Int /\ acc.avg \in Rational /\ r.price \in Rational
      /\ v \in Rational /\ g \in Rational
  BY BookedParts DEF Entry, Book
<1>1. PICK D \in Positive, A \in Int, P \in Int, W \in Int, F \in Int, B \in Int :
           /\ Is(acc.avg, A, D) /\ Is(r.price, P, D) /\ Is(w, W, D) /\ Is(f, F, D)
           /\ Is(v, B, D)
  BY Denominator
<1>2. K \in Int /\ A * n + (P - A) * K = B * (n + q) - P * q
  BY <1>1, AverageUnits
<1>3. Is(g, (-c) * D + (P - A) * K, D)
  BY <1>1, <1>2, GainUnits
<1>4. /\ Booked(r, acc).net = n + q /\ Booked(r, acc).avg = v
      /\ Booked(r, acc).realized = Plus(acc.realized, g)
      /\ acc.realized = Minus(Scale(acc.avg, n), Plus(w, f))
      /\ Worth(r) = Scale(r.price, q)
  BY BookedParts DEF Balances, Worth
<1> HIDE DEF n, q, K, c, v, g
<1>5. /\ A * n \in Int /\ W + F \in Int /\ A * n - (W + F) \in Int /\ P * q \in Int /\ B * (n + q) \in Int
      /\ c * D \in Int /\ (-c) * D \in Int /\ (-c) * D = -(c * D) /\ (P - A) * K \in Int
      /\ (-c) * D + (P - A) * K \in Int /\ n + q \in Int
      /\ P * q + W \in Int /\ c * D + F \in Int
  BY <1>0, <1>2 DEF Positive
<1>6. Scale(acc.avg, n) \in Rational /\ Is(Scale(acc.avg, n), A * n, D)
  BY <1>0, <1>1, IsScale
<1>7. Plus(w, f) \in Rational /\ Is(Plus(w, f), W + F, D)
  BY <1>1, IsPlus
<1>8. acc.realized \in Rational /\ Is(acc.realized, A * n - (W + F), D)
  BY <1>4, <1>5, <1>6, <1>7, IsPlus
<1> DEFINE R == (A * n - (W + F)) + ((-c) * D + (P - A) * K)
<1>9. Plus(acc.realized, g) \in Rational /\ Is(Plus(acc.realized, g), R, D) /\ R \in Int
  <2>1. Plus(acc.realized, g) \in Rational /\ Is(Plus(acc.realized, g), R, D)
    BY <1>0, <1>3, <1>5, <1>8, IsPlus
  <2> QED BY <1>5, <2>1
<1>10. Scale(v, n + q) \in Rational /\ Is(Scale(v, n + q), B * (n + q), D)
  BY <1>0, <1>1, <1>5, IsScale
<1>11. Scale(r.price, q) \in Rational /\ Is(Scale(r.price, q), P * q, D)
  BY <1>0, <1>1, IsScale
<1>12. Plus(Scale(r.price, q), w) \in Rational /\ Is(Plus(Scale(r.price, q), w), P * q + W, D)
  BY <1>1, <1>5, <1>11, IsPlus
<1>13. Amount(c) \in Rational /\ Is(Amount(c), c * D, D)
  BY <1>0, IsAmount
<1>14. Plus(Amount(c), f) \in Rational /\ Is(Plus(Amount(c), f), c * D + F, D)
  BY <1>1, <1>5, <1>13, IsPlus
<1> DEFINE x == Plus(Scale(r.price, q), w)
           y == Plus(Amount(c), f)
           z == Plus(x, y)
<1>15. z \in Rational /\ Is(z, (P * q + W) + (c * D + F), D)
  <2> HIDE DEF x, y
  <2>1. x \in Rational /\ Is(x, P * q + W, D) /\ y \in Rational /\ Is(y, c * D + F, D)
    BY <1>12, <1>14 DEF x, y
  <2> QED BY <1>5, <2>1, IsPlus
<1> DEFINE E == B * (n + q) - ((P * q + W) + (c * D + F))
<1>16. Minus(Scale(v, n + q), z) \in Rational /\ Is(Minus(Scale(v, n + q), z), E, D)
  <2> HIDE DEF z
  <2>1. (P * q + W) + (c * D + F) \in Int
    BY <1>5
  <2> QED BY <1>5, <1>10, <1>15, <2>1, IsPlus
<1>17. R = E
  <2> DEFINE an == A * n
             pk == (P - A) * K
             bq == B * (n + q)
             pq == P * q
             cd == c * D
             ncd == (-c) * D
  <2>1. /\ an \in Int /\ pk \in Int /\ bq \in Int /\ pq \in Int /\ cd \in Int /\ ncd = -cd
        /\ an + pk = bq - pq
    BY <1>2, <1>5
  <2>2. R = (an - (W + F)) + (ncd + pk) /\ E = bq - ((pq + W) + (cd + F))
    OBVIOUS
  <2> HIDE DEF an, pk, bq, pq, cd, ncd, R, E
  <2> QED BY <2>1, <2>2
<1> HIDE DEF R, E, z
<1>18. Plus(acc.realized, g) = Minus(Scale(v, n + q), z)
  BY <1>9, <1>16, <1>17, IsUnique
<1> QED BY <1>4, <1>18, Zenon DEF Balances, z, x, y, c

-----------------------------------------------------------------------------
(* The books of a set of increments. *)

Worths(S)  == [r \in S |-> Worth(r)]
Fees(S)    == [r \in S |-> Amount(r.fees)]
Gains(S)   == [r \in S |-> Gain(Replay(Before(S, r)), r)]

\* What an increment is worth, and its charges, are rationals.
LEMMA WorthType ==
  ASSUME NEW r, Entry(r)
  PROVE  Worth(r) \in Rational /\ Amount(r.fees) \in Rational
<1>1. r.price \in Rational /\ r.qty \in Int /\ r.fees \in Int
  BY DEF Entry
<1>2. PICK D \in Positive, X \in Int, Y \in Int, Z \in Int :
        Is(r.price, X, D) /\ Is(r.price, Y, D) /\ Is(r.price, Z, D)
  BY <1>1, Common
<1>3. Scale(r.price, r.qty) \in Rational
  BY <1>1, <1>2, IsScale
<1> QED BY <1>1, <1>3, AmountRational DEF Worth

\* The increments before the last one are all the others, and it is before none.
LEMMA BeforeLast ==
  ASSUME NEW S, Chrono(S), S # {}
  PROVE  /\ Latest(S) \in S /\ Before(S, Latest(S)) = S \ {Latest(S)}
         /\ \A t \in S \ {Latest(S)} : Before(S, t) = Before(S \ {Latest(S)}, t)
<1>1. Latest(S) \in S /\ \A t \in S \ {Latest(S)} : Earlier(t, Latest(S)) /\ ~Earlier(Latest(S), t)
  BY LatestIs
<1>2. ~Earlier(Latest(S), Latest(S))
  BY <1>1 DEF Earlier, Chrono, Entry
<1> QED BY <1>1, <1>2 DEF Before

\* The double entry of average cost.
LEMMA ReplayBalance ==
  ASSUME NEW S, Chrono(S)
  PROVE  Balances(Replay(S), Sum(S, Worths(S)), Sum(S, Fees(S)))
<1> DEFINE w == Worths(S)
           f == Fees(S)
           Q == {T \in SUBSET S : Balances(Replay(T), Sum(T, w), Sum(T, f))}
<1>0. IsFiniteSet(S) /\ \A r \in S : Entry(r)
  BY DEF Chrono
<1>1. \A r \in S : w[r] = Worth(r) /\ f[r] = Amount(r.fees) /\ w[r] \in Rational /\ f[r] \in Rational
  BY <1>0, WorthType DEF Worths, Fees
<1>2. ASSUME NEW T \in SUBSET S, \A U \in SUBSET T : U # T => U \in Q
      PROVE  T \in Q
  <2>0. IsFiniteSet(T) /\ Chrono(T) /\ (\A r \in T : w[r] \in Rational) /\ (\A r \in T : f[r] \in Rational)
    BY <1>0, <1>1, FS_Subset, ChronoSubset
  <2>1. CASE T = {}
    <3>1. Replay(T) = Flat /\ Sum(T, w) = Amount(0) /\ Sum(T, f) = Amount(0)
      BY <2>1, ReplayIsFold, TotalEmpty
    <3>2. Balances(Flat, Amount(0), Amount(0))
      <4>1. Amount(0) \in Rational /\ 1 \in Positive /\ 0 \in Int
        BY AmountRational DEF Positive
      <4>2. Is(Amount(0), 0, 1)
        BY DEF Is, Amount
      <4>3. Scale(Amount(0), 0) \in Rational /\ Is(Scale(Amount(0), 0), 0 * 0, 1)
        BY <4>1, <4>2, IsScale
      <4>4. Plus(Amount(0), Amount(0)) = Amount(0)
        BY <4>1, PlusLaws
      <4>5. Is(Scale(Amount(0), 0), 0, 1)
        BY <4>3
      <4>6. /\ Minus(Scale(Amount(0), 0), Amount(0)) \in Rational
            /\ Is(Minus(Scale(Amount(0), 0), Amount(0)), 0 - 0, 1)
        BY <4>1, <4>2, <4>3, <4>5, IsPlus
      <4>7. Minus(Scale(Amount(0), 0), Amount(0)) = Amount(0)
        BY <4>1, <4>2, <4>6, IsUnique
      <4> QED BY <4>4, <4>7 DEF Balances, Flat
    <3> QED BY <3>1, <3>2
  <2>2. CASE T # {}
    <3> DEFINE r == Latest(T)
    <3>1. r \in T /\ T \ {r} \in SUBSET T /\ T \ {r} # T
      BY <2>0, <2>2, LatestIs
    <3>2. Replay(T) = Booked(r, Replay(T \ {r})) /\ Replay(T \ {r}) \in Book
      BY <2>2, ReplayIsFold
    <3> HIDE DEF r
    <3>3. Balances(Replay(T \ {r}), Sum(T \ {r}, w), Sum(T \ {r}, f))
      BY <1>2, <3>1
    <3>4. Entry(r) /\ w[r] = Worth(r) /\ f[r] = Amount(r.fees)
      BY <1>0, <1>1, <3>1
    <3> HIDE DEF w, f, Q
    <3>5. Sum(T, w) = Plus(w[r], Sum(T \ {r}, w)) /\ Sum(T, f) = Plus(f[r], Sum(T \ {r}, f))
      BY <2>0, <3>1, TotalSplit
    <3>6. Sum(T \ {r}, w) \in Rational /\ Sum(T \ {r}, f) \in Rational
      <4>1. /\ IsFiniteSet(T \ {r}) /\ (\A x \in T \ {r} : w[x] \in Rational)
            /\ (\A x \in T \ {r} : f[x] \in Rational)
        BY <2>0, FS_Subset
      <4> QED BY <4>1, TotalType
    <3> DEFINE a == Replay(T \ {r})
               sw == Sum(T \ {r}, w)
               sf == Sum(T \ {r}, f)
    <3>7. Balances(Booked(r, a), Plus(Worth(r), sw), Plus(Amount(r.fees), sf))
      <4>1. a \in Book /\ sw \in Rational /\ sf \in Rational /\ Balances(a, sw, sf)
        BY <3>2, <3>3, <3>6
      <4> HIDE DEF a, sw, sf
      <4> QED BY <3>4, <4>1, BookedBalances
    <3>8. Balances(Replay(T), Sum(T, w), Sum(T, f))
      BY <3>2, <3>4, <3>5, <3>7
    <3> QED BY <3>8 DEF Q
  <2> QED BY <2>1, <2>2
<1>3. S \in Q
  <2>1. \A T \in SUBSET S : T \in Q
    <3> HIDE DEF Q
    <3> QED BY <1>0, <1>2, SubsetInduction
  <2> HIDE DEF Q
  <2> QED BY <2>1
<1> QED BY <1>3

\* What each increment added adds up.
LEMMA ReplayTotals ==
  ASSUME NEW S, Chrono(S)
  PROVE  Sum(S, Gains(S)) = Replay(S).realized
<1> DEFINE Q == {T \in SUBSET S : Sum(T, Gains(T)) = Replay(T).realized}
<1>0. IsFiniteSet(S)
  BY DEF Chrono
<1>1. ASSUME NEW T \in SUBSET S, \A U \in SUBSET T : U # T => U \in Q
      PROVE  T \in Q
  <2>0. Chrono(T) /\ IsFiniteSet(T)
    BY <1>0, FS_Subset, ChronoSubset
  <2>1. CASE T = {}
    <3>1. Replay(T) = Flat /\ Sum(T, Gains(T)) = Amount(0)
      BY <2>1, ReplayIsFold, TotalEmpty
    <3> QED BY <3>1 DEF Flat
  <2>2. CASE T # {}
    <3> DEFINE r == Latest(T)
               U == T \ {r}
    <3>1. r \in T /\ Before(T, r) = U /\ \A t \in U : Before(T, t) = Before(U, t)
      BY <2>0, <2>2, BeforeLast
    <3>2. Replay(T) = Booked(r, Replay(U)) /\ Replay(U) \in Book
      BY <2>2, ReplayIsFold
    <3>3. \A t \in T : Gains(T)[t] \in Rational
      <4> SUFFICES ASSUME NEW t \in T PROVE Gain(Replay(Before(T, t)), t) \in Rational
        BY DEF Gains
      <4>1. Before(T, t) \in SUBSET S
        BY DEF Before
      <4>2. Replay(Before(T, t)) \in Book /\ Entry(t)
        BY <4>1, ReplayIsFold DEF Chrono
      <4> QED BY <4>2, BookedParts
    <3>4. Sum(U, Gains(U)) = Replay(U).realized
      BY <1>1, <3>1
    <3>5. \A t \in U : Gains(T)[t] \in Rational /\ Gains(T)[t] = Gains(U)[t]
      BY <3>1, <3>3 DEF Gains
    <3>6. Gains(T)[r] = Gain(Replay(U), r) /\ Entry(r)
      BY <3>1 DEF Gains, Chrono
    <3>7. IsFiniteSet(U)
      BY <2>0, FS_Subset
    <3> HIDE DEF r, Q
    <3>8. Sum(T, Gains(T)) = Plus(Gains(T)[r], Sum(T \ {r}, Gains(T)))
      BY <2>0, <3>1, <3>3, TotalSplit
    <3>9. Sum(U, Gains(T)) = Sum(U, Gains(U))
      <4> HIDE DEF U
      <4> QED BY <3>5, <3>7, TotalCongruence
    <3>10. Replay(T).realized = Plus(Replay(U).realized, Gain(Replay(U), r))
      <4>1. Booked(r, Replay(U)).realized = Plus(Replay(U).realized, Gain(Replay(U), r))
        BY DEF Booked
      <4> QED BY <3>2, <4>1
    <3>11. Replay(U).realized \in Rational /\ Gain(Replay(U), r) \in Rational
      BY <3>2, <3>6, BookedParts DEF Book
    <3>12. Plus(Replay(U).realized, Gain(Replay(U), r)) = Plus(Gain(Replay(U), r), Replay(U).realized)
      BY <3>11, PlusLaws
    <3> QED BY <3>4, <3>6, <3>8, <3>9, <3>10, <3>12 DEF Q
  <2> QED BY <2>1, <2>2
<1>2. S \in Q
  <2>1. \A T \in SUBSET S : T \in Q
    <3> HIDE DEF Q
    <3> QED BY <1>0, <1>1, SubsetInduction
  <2> HIDE DEF Q
  <2> QED BY <2>1
<1> QED BY <1>2

-----------------------------------------------------------------------------
(* The ladder of an order. *)

Fields == {"id", "order", "holding", "side", "cum", "value", "qty", "price", "at", "fees",
           "costed", "realized"}

\* As much of the type of an increment as a replay leaves alone.
Shaped(r) == DOMAIN r = Fields /\ r.cum \in Nat /\ r.value \in Nat

Alike(r, t) == r.holding = t.holding /\ r.side = t.side

Ladder(S) ==
  \A r, t \in S :
    r.order = t.order =>
      /\ Alike(r, t)
      /\ r.cum = t.cum => r = t
      /\ r.cum < t.cum <=> r.value < t.value

\* The increments of an order have a highest one.
Topped(S) ==
  \A r \in S : \E t \in S :
    t.order = r.order /\ \A u \in S : u.order = r.order => u.cum <= t.cum

Good(S) == (\A r \in S : Shaped(r)) /\ Ladder(S) /\ Topped(S)

\* The same evidence, after fees and replay.
SameKey(r, t) ==
  /\ r.order = t.order /\ Alike(r, t)
  /\ r.cum = t.cum /\ r.value = t.value

\* Rewriting what is not evidence keeps a good set good.
LEMMA GoodImage ==
  ASSUME NEW S, Good(S), NEW g, \A r \in S : SameKey(g[r], r) /\ Shaped(g[r])
  PROVE  Good({g[r] : r \in S})
<1> DEFINE T == {g[r] : r \in S}
<1>1. \A r \in T : Shaped(r)
  OBVIOUS
<1>2. Ladder(T)
  BY DEF Good, Ladder, SameKey, Alike
<1>3. Topped(T)
  <2> SUFFICES ASSUME NEW r \in S
               PROVE  \E t \in T : /\ t.order = g[r].order
                                   /\ \A u \in T : u.order = g[r].order => u.cum <= t.cum
    BY DEF Topped
  <2>1. PICK t \in S : t.order = r.order /\ \A u \in S : u.order = r.order => u.cum <= t.cum
    BY DEF Good, Topped
  <2>2. g[t] \in T /\ g[t].order = g[r].order
    BY <2>1 DEF SameKey
  <2>3. \A u \in S : g[u].order = g[r].order => g[u].cum <= g[t].cum
    BY <2>1 DEF SameKey
  <2>4. QED
    BY <2>2, <2>3
<1>4. QED
  BY <1>1, <1>2, <1>3 DEF Good

\* _project rewrites realized values only.
LEMMA ProjectGood ==
  ASSUME NEW S, Good(S), NEW h, NEW flag, NEW kept, Project(S, h, flag, kept)
  PROVE  Good(rows')
<1> DEFINE mine == RowsIn(S, h)
           g == [r \in S |-> IF r \in mine THEN Restated(mine, r) ELSE r]
<1>1. rows' = (S \ mine) \cup {Restated(mine, r) : r \in mine}
  BY DEF Project
<1>2. mine \subseteq S
  BY DEF RowsIn
<1>3. rows' = {g[r] : r \in S}
  BY <1>1, <1>2
<1>4. \A r \in S : SameKey(g[r], r) /\ Shaped(g[r])
  <2> SUFFICES ASSUME NEW r \in S PROVE SameKey(g[r], r) /\ Shaped(g[r])
    OBVIOUS
  <2>1. Shaped(r)
    BY DEF Good
  <2>2. CASE r \in mine
    <3> DEFINE v == Gain(Replay(Before(mine, r)), r)
    <3>1. g[r] = [r EXCEPT !.realized = v]
      BY <2>2 DEF Restated
    <3> HIDE DEF v, g, mine
    <3>2. QED
      BY <2>1, <3>1 DEF Shaped, Fields, SameKey, Alike
  <2>3. CASE r \notin mine
    BY <2>1, <2>3 DEF SameKey, Alike
  <2>4. QED
    BY <2>2, <2>3
<1>5. QED
  <2> HIDE DEF g
  <2> QED BY <1>3, <1>4, GoodImage

\* The highest increment of an order decides what comes next.
LEMMA Prior ==
  ASSUME Good(rows), NEW o, NEW r \in RowsOf(o)
  PROVE  \E t \in RowsOf(o) :
           /\ Tops(o) = {t} /\ r.cum <= t.cum /\ r.value <= t.value /\ Alike(r, t)
           /\ PriorCum(o) = t.cum /\ PriorVal(o) = t.value
<1>1. PICK t \in RowsOf(o) : \A u \in RowsOf(o) : u.cum <= t.cum
  BY DEF Good, Topped, RowsOf
<1>2. \A u \in RowsOf(o) : Shaped(u) /\ u \in rows /\ u.order = o
  BY DEF Good, RowsOf
<1>3. Tops(o) = {t}
  BY <1>1, <1>2 DEF Tops, Good, Ladder, Shaped
<1>4. r.cum <= t.cum /\ r.value <= t.value /\ Alike(r, t)
  BY <1>1, <1>2 DEF Good, Ladder, Shaped
<1>5. PriorCum(o) = t.cum
  <2> DEFINE C == {0} \cup {u.cum : u \in RowsOf(o)}
  <2>1. t.cum \in C /\ \A c \in C : c \in Nat /\ t.cum >= c
    BY <1>1, <1>2 DEF Shaped
  <2>2. PriorCum(o) = Max(C)
    BY DEF PriorCum
  <2> HIDE DEF C
  <2>3. \A x \in C : (\A c \in C : x >= c) => x = t.cum
    BY <2>1
  <2>4. QED
    BY <2>1, <2>2, <2>3 DEF Max
<1>6. PriorVal(o) = t.value
  <2> DEFINE C == {0} \cup {u.value : u \in Tops(o)}
  <2>1. C = {0, t.value} /\ t.value \in Nat
    BY <1>2, <1>3 DEF Shaped
  <2>2. \A x \in C : (\A c \in C : x >= c) => x = t.value
    BY <2>1
  <2>3. t.value \in C /\ \A c \in C : t.value >= c
    BY <2>1
  <2>4. QED
    BY <2>2, <2>3 DEF PriorVal, Max
<1>7. QED
  BY <1>3, <1>4, <1>5, <1>6

\* A new increment is the next rung of its order's ladder.
LEMMA RungGood ==
  ASSUME Good(rows), NEW e \in Reports, News(e)
  PROVE  Good(rows \cup {Increment(e)})
<1> DEFINE n == Increment(e)
<1>1. /\ Shaped(n) /\ n.order = e.order /\ n.cum = e.cum /\ n.value = e.value
      /\ n.holding = e.holding /\ n.side = e.side
  BY ReportsAreCumulative DEF Increment, Shaped, Fields
<1>2. \A r \in rows : r.order = e.order =>
        r.cum < n.cum /\ r.value < n.value /\ Alike(r, n)
  <2> SUFFICES ASSUME NEW r \in rows, r.order = e.order
               PROVE  r.cum < n.cum /\ r.value < n.value /\ Alike(r, n)
    OBVIOUS
  <2>1. r \in RowsOf(e.order)
    BY DEF RowsOf
  <2>2. PICK t \in RowsOf(e.order) :
          /\ Tops(e.order) = {t} /\ r.cum <= t.cum /\ r.value <= t.value /\ Alike(r, t)
          /\ PriorCum(e.order) = t.cum /\ PriorVal(e.order) = t.value
    BY <2>1, Prior
  <2>3. /\ r.cum \in Nat /\ r.value \in Nat /\ t.cum \in Nat /\ t.value \in Nat
        /\ e.cum \in Nat /\ e.value \in Nat
    BY ReportsAreCumulative DEF Good, RowsOf, Shaped
  <2>4. e.cum > t.cum /\ ~Contradicts(e)
    BY <2>2 DEF News
  <2>5. t.holding = e.holding /\ t.side = e.side
    BY <2>2, <2>4 DEF Contradicts, Stranger
  <2>6. Same(e) = {}
    <3>1. \A u \in RowsOf(e.order) : u.cum <= t.cum /\ u.cum \in Nat
      BY <2>2 DEF Tops, Good, RowsOf, Shaped
    <3>2. QED
      BY <2>3, <2>4, <3>1 DEF Same
  <2>7. e.value > t.value
    BY <2>2, <2>3, <2>4, <2>6 DEF Contradicts
  <2> HIDE DEF n
  <2>8. QED
    BY <1>1, <2>2, <2>3, <2>4, <2>5, <2>7 DEF Alike
<1> HIDE DEF n
<1>3. Ladder(rows \cup {n})
  <2>1. \A r \in rows : Shaped(r)
    BY DEF Good
  <2>2. \A r \in rows : Alike(r, n) => Alike(n, r)
    BY DEF Alike
  <2>3. Alike(n, n)
    BY DEF Alike
  <2>4. QED
    BY <1>1, <1>2, <2>1, <2>2, <2>3 DEF Ladder, Good, Shaped
<1>4. Topped(rows \cup {n})
  <2> SUFFICES ASSUME NEW r \in rows \cup {n}
               PROVE  \E t \in rows \cup {n} :
                        /\ t.order = r.order
                        /\ \A u \in rows \cup {n} : u.order = r.order => u.cum <= t.cum
    BY DEF Topped
  <2>1. CASE r.order = e.order
    <3>1. \A u \in rows \cup {n} : u.order = e.order => u.cum <= n.cum
      BY <1>1, <1>2 DEF Good, Shaped
    <3>2. QED
      BY <1>1, <2>1, <3>1
  <2>2. CASE r.order # e.order
    <3>1. PICK t \in rows : /\ t.order = r.order
                            /\ \A u \in rows : u.order = r.order => u.cum <= t.cum
      BY <1>1, <2>2 DEF Good, Topped
    <3>2. QED
      BY <1>1, <2>2, <3>1
  <2>3. QED
    BY <2>1, <2>2
<1>5. \A r \in rows \cup {n} : Shaped(r)
  BY <1>1 DEF Good
<1>6. Good(rows \cup {n})
  BY <1>3, <1>4, <1>5 DEF Good
<1>7. QED
  BY <1>6 DEF n

\* Charges are not evidence either.
LEMMA CostedGood ==
  ASSUME Good(rows), NEW o, NEW fees, NEW mine \in SUBSET rows
  PROVE  Good((rows \ mine) \cup {Costed(r, o, fees) : r \in mine})
<1> DEFINE g == [r \in rows |-> IF r \in mine THEN Costed(r, o, fees) ELSE r]
<1>1. (rows \ mine) \cup {Costed(r, o, fees) : r \in mine} = {g[r] : r \in rows}
  OBVIOUS
<1>2. \A r \in rows : SameKey(g[r], r) /\ Shaped(g[r])
  <2> SUFFICES ASSUME NEW r \in rows PROVE SameKey(g[r], r) /\ Shaped(g[r])
    OBVIOUS
  <2>1. Shaped(r)
    BY DEF Good
  <2>2. CASE r \in mine
    <3> DEFINE v == IF r.cum = PriorCum(o) THEN fees ELSE 0
    <3>1. g[r] = [r EXCEPT !.fees = v, !.costed = TRUE]
      BY <2>2 DEF Costed
    <3> HIDE DEF v, g
    <3>2. QED
      BY <2>1, <3>1 DEF Shaped, Fields, SameKey, Alike
  <2>3. CASE r \notin mine
    BY <2>1, <2>3 DEF SameKey, Alike
  <2>4. QED
    BY <2>2, <2>3
<1>3. QED
  <2> HIDE DEF g
  <2> QED BY <1>1, <1>2, GoodImage

\* Every action keeps the ladders.
LEMMA LadderNext == Good(rows) /\ [Next]_vars => Good(rows')
<1> SUFFICES ASSUME Good(rows), [Next]_vars PROVE Good(rows')
  OBVIOUS
<1>1. ASSUME NEW e \in Reports, RecordFill(e) PROVE Good(rows')
  BY <1>1, RungGood, ProjectGood DEF RecordFill
<1>2. ASSUME NEW e \in Reports, Quarantine(e) PROVE Good(rows')
  BY <1>2, ProjectGood DEF Quarantine
<1>3. ASSUME NEW e \in Reports, RecordBenign(e) PROVE Good(rows')
  BY <1>3 DEF RecordBenign
<1>4. ASSUME NEW o \in Orders, NEW h \in Holdings, NEW fees \in Charges, ApplyFees(o, h, fees)
      PROVE  Good(rows')
  <2> DEFINE mine == RowsIn(RowsOf(o), h)
  <2>1. mine \in SUBSET rows
    BY DEF RowsIn, RowsOf
  <2>2. Good((rows \ mine) \cup {Costed(r, o, fees) : r \in mine})
    BY <2>1, CostedGood
  <2>3. Project((rows \ mine) \cup {Costed(r, o, fees) : r \in mine}, h, "", inv[h].reason)
    BY <1>4 DEF ApplyFees
  <2> HIDE DEF mine
  <2>4. QED
    BY <2>2, <2>3, ProjectGood
<1>5. ASSUME NEW h \in Holdings, NEW note \in Notes, Resolve(h, note) PROVE Good(rows')
  BY <1>5, ProjectGood DEF Resolve
<1>6. CASE UNCHANGED vars
  BY <1>6 DEF vars
<1>7. QED
  BY <1>1, <1>2, <1>3, <1>4, <1>5, <1>6 DEF Next

\* The increments of an order are one contract and side, and their quantity and value
\* grow together, whatever is reported, in whatever order (fill_ledger.record).
THEOREM LadderHolds == Spec => []OneLadder
<1>1. Init => Good(rows)
  BY DEF Init, Good, Ladder, Topped
<1>2. Good(rows) => OneLadder
  <2> SUFFICES ASSUME Ladder(rows) PROVE OneLadder
    BY DEF Good
  <2> SUFFICES ASSUME NEW r \in rows, NEW t \in rows, r.order = t.order
               PROVE  /\ r.holding = t.holding /\ r.side = t.side
                      /\ r.cum = t.cum => r = t
                      /\ r.cum < t.cum <=> r.value < t.value
    BY DEF OneLadder
  <2> QED
    BY DEF Ladder, Alike
<1>3. Good(rows) /\ [Next]_vars => Good(rows')
  BY LadderNext
<1> DEFINE G == Good(rows)
<1>4. G /\ [Next]_vars => G'
  BY <1>3
<1> HIDE DEF G
<1>5. QED
  BY <1>1, <1>2, <1>4, PTL DEF Spec, G

-----------------------------------------------------------------------------
\* Flags, and the tables they live in.
FlagInv ==
  /\ DOMAIN inv = Holdings
  /\ doubts \in [Holdings -> SUBSET Reports]
  /\ DoubtIsFlagged

\* _project sets the reason of one holding: the flag, or else what it keeps.
LEMMA ProjectFlags ==
  ASSUME FlagInv, NEW S, NEW h \in Holdings, NEW flag, NEW kept, Project(S, h, flag, kept)
  PROVE  /\ DOMAIN inv' = Holdings
         /\ flag # "" => inv'[h].reason = flag
         /\ flag = "" => inv'[h].reason = kept
         /\ \A j \in Holdings \ {h} : inv'[j] = inv[j]
<1> DEFINE d == Derived(RowsIn(S, h), IF flag # "" THEN flag ELSE kept)
<1>1. inv' = [inv EXCEPT ![h] = d]
  BY DEF Project
<1>2. (flag # "" => d.reason = flag) /\ (flag = "" => d.reason = kept)
  BY DEF Derived
<1> HIDE DEF d
<1>3. QED
  BY <1>1, <1>2 DEF FlagInv

\* Every action keeps the flags.
LEMMA FlagNext == FlagInv /\ [Next]_vars => FlagInv'
<1> SUFFICES ASSUME FlagInv, [Next]_vars PROVE FlagInv'
  OBVIOUS
<1>1. ASSUME NEW e \in Reports, RecordFill(e) PROVE FlagInv'
  <2>1. e.holding \in Holdings
    BY ReportsAreCumulative
  <2>2. /\ DOMAIN inv' = Holdings /\ inv'[e.holding].reason = inv[e.holding].reason
        /\ \A j \in Holdings \ {e.holding} : inv'[j] = inv[j]
    <3> DEFINE S == rows \cup {Increment(e)}
               h == e.holding
               kept == inv[e.holding].reason
    <3>1. Project(S, h, "", kept)
      BY <1>1 DEF RecordFill
    <3> HIDE DEF S, h, kept
    <3>2. h \in Holdings
      BY <2>1 DEF h
    <3>3. /\ DOMAIN inv' = Holdings /\ inv'[h].reason = kept
          /\ \A j \in Holdings \ {h} : inv'[j] = inv[j]
      BY <3>1, <3>2, ProjectFlags, ZenonT(60)
    <3>4. QED
      BY <3>3 DEF h, kept
  <2>3. doubts' = doubts
    BY <1>1 DEF RecordFill
  <2>4. QED
    BY <2>1, <2>2, <2>3 DEF FlagInv, DoubtIsFlagged, Flagged
<1>2. ASSUME NEW e \in Reports, Quarantine(e) PROVE FlagInv'
  <2>1. e.holding \in Holdings
    BY ReportsAreCumulative
  <2>2. /\ DOMAIN inv' = Holdings /\ inv'[e.holding].reason = "conflict"
        /\ \A j \in Holdings \ {e.holding} : inv'[j] = inv[j]
    <3> DEFINE d == Derived(RowsIn(rows, e.holding),
                            IF "conflict" # "" THEN "conflict" ELSE inv[e.holding].reason)
    <3>1. inv' = [inv EXCEPT ![e.holding] = d]
      BY <1>2 DEF Quarantine, Project
    <3>2. d.reason = "conflict"
      BY DEF Derived
    <3> HIDE DEF d
    <3>3. QED
      BY <2>1, <3>1, <3>2 DEF FlagInv
  <2>3. doubts' = [doubts EXCEPT ![e.holding] = @ \cup {e}]
    BY <1>2 DEF Quarantine
  <2>4. QED
    BY <2>1, <2>2, <2>3 DEF FlagInv, DoubtIsFlagged, Flagged
<1>3. ASSUME NEW e \in Reports, RecordBenign(e) PROVE FlagInv'
  BY <1>3 DEF RecordBenign, FlagInv, DoubtIsFlagged, Flagged
<1>4. ASSUME NEW o \in Orders, NEW h \in Holdings, NEW fees \in Charges, ApplyFees(o, h, fees)
      PROVE  FlagInv'
  <2>1. /\ DOMAIN inv' = Holdings /\ inv'[h].reason = inv[h].reason
        /\ \A j \in Holdings \ {h} : inv'[j] = inv[j]
    <3> DEFINE S == (rows \ RowsIn(RowsOf(o), h)) \cup {Costed(r, o, fees) : r \in RowsIn(RowsOf(o), h)}
    <3>1. Project(S, h, "", inv[h].reason)
      BY <1>4 DEF ApplyFees
    <3> HIDE DEF S
    <3>2. QED
      BY <3>1, ProjectFlags, ZenonT(60)
  <2>2. doubts' = doubts
    BY <1>4 DEF ApplyFees
  <2>3. QED
    BY <2>1, <2>2 DEF FlagInv, DoubtIsFlagged, Flagged
<1>5. ASSUME NEW h \in Holdings, NEW note \in Notes, Resolve(h, note) PROVE FlagInv'
  <2>1. DOMAIN inv' = Holdings /\ \A j \in Holdings \ {h} : inv'[j] = inv[j]
    BY <1>5, ProjectFlags DEF Resolve
  <2>2. doubts' = [doubts EXCEPT ![h] = {}]
    BY <1>5 DEF Resolve
  <2>3. QED
    BY <2>1, <2>2 DEF FlagInv, DoubtIsFlagged, Flagged
<1>6. CASE UNCHANGED vars
  BY <1>6 DEF vars, FlagInv, DoubtIsFlagged, Flagged
<1>7. QED
  BY <1>1, <1>2, <1>3, <1>4, <1>5, <1>6 DEF Next

\* A holding with a contradiction nobody resolved is flagged, for ever
\* (fill_ledger._quarantine, _project and resolve).
THEOREM DoubtsStand == Spec => []DoubtIsFlagged
<1>1. Init => FlagInv
  BY DEF Init, FlagInv, DoubtIsFlagged
<1>2. FlagInv => DoubtIsFlagged
  BY DEF FlagInv
<1>3. QED
  BY <1>1, <1>2, FlagNext, PTL DEF Spec

-----------------------------------------------------------------------------
(* The increments as a table. *)

Row(r) == r \in Increments /\ Entry(r) /\ r.cum # 0 /\ r.realized \in Rational

\* Increments are numbered as they arrive.
Numbered(S) ==
  /\ IsFiniteSet(S) /\ \A r \in S : Row(r) /\ r.id <= Cardinality(S)
  /\ \A r, t \in S : r.id = t.id => r = t

Image(g, S) == {g[r] : r \in S}

OfOrder(S, o) == {r \in S : r.order = o}
Highest(S, t) == \A u \in S : u.order = t.order => u.cum <= t.cum

Qtys(S) == [r \in S |-> Amount(r.qty)]

\* The increments of an order add up to its highest cumulative figures.
Cumulated(S) ==
  \A t \in S : Highest(S, t) =>
    /\ Sum(OfOrder(S, t.order), Qtys(S)) = Amount(t.side * t.cum)
    /\ Sum(OfOrder(S, t.order), Worths(S)) = Amount(t.side * t.value)

\* The charges on the increments of an order add up to c.
ChargedTo(S, c) == \A o \in Orders : Sum(OfOrder(S, o), Fees(S)) = Amount(c[o])

\* The same fill, charges and replay aside; and the replay alone aside.
SameFill(r, t) ==
  r.id = t.id /\ r.at = t.at /\ r.qty = t.qty /\ r.price = t.price /\ SameKey(r, t)
SameRow(r, t) == SameFill(r, t) /\ SameEntry(r, t)

\* Numbered increments have an order of their own.
LEMMA NumberedChrono ==
  ASSUME NEW S, Numbered(S)
  PROVE  Chrono(S)
BY DEF Numbered, Chrono, Row

\* Rewriting keeps the numbers.
LEMMA NumberedImage ==
  ASSUME NEW S, NEW g, Numbered(S), \A r \in S : SameFill(g[r], r) /\ Row(g[r])
  PROVE  Numbered(Image(g, S)) /\ OneToOne(g, S)
<1>1. OneToOne(g, S)
  BY DEF OneToOne, Numbered, SameFill
<1>2. IsFiniteSet(Image(g, S)) /\ Cardinality(Image(g, S)) = Cardinality(S)
  BY <1>1, ImageFinite DEF Numbered, Image
<1>3. \A x \in Image(g, S) : Row(x) /\ x.id <= Cardinality(S)
  BY DEF Numbered, SameFill, Image
<1>4. \A x, y \in Image(g, S) : x.id = y.id => x = y
  BY DEF Numbered, SameFill, Image
<1>5. Cardinality(Image(g, S)) = Cardinality(S) /\ IsFiniteSet(Image(g, S))
  BY <1>2 DEF Image
<1> QED BY <1>1, <1>3, <1>4, <1>5 DEF Numbered

\* What is added up over a table.
LEMMA NumberedTypes ==
  ASSUME NEW S, Numbered(S)
  PROVE  \A r \in S : /\ Qtys(S)[r] = Amount(r.qty) /\ Qtys(S)[r] \in Rational
                      /\ Worths(S)[r] = Worth(r) /\ Worths(S)[r] \in Rational
                      /\ Fees(S)[r] = Amount(r.fees) /\ Fees(S)[r] \in Rational
<1> SUFFICES ASSUME NEW r \in S
             PROVE  /\ Qtys(S)[r] = Amount(r.qty) /\ Qtys(S)[r] \in Rational
                    /\ Worths(S)[r] = Worth(r) /\ Worths(S)[r] \in Rational
                    /\ Fees(S)[r] = Amount(r.fees) /\ Fees(S)[r] \in Rational
  OBVIOUS
<1>1. Entry(r) /\ r.qty \in Int
  BY DEF Numbered, Row, Entry
<1>2. Worth(r) \in Rational /\ Amount(r.fees) \in Rational /\ Amount(r.qty) \in Rational
  BY <1>1, WorthType, AmountRational
<1> QED BY <1>2 DEF Qtys, Worths, Fees

\* Rewriting what is not evidence does not move the sums of an order.
LEMMA OrderImage ==
  ASSUME NEW S, NEW g, NEW o, Numbered(S), \A r \in S : SameFill(g[r], r) /\ Row(g[r])
  PROVE  /\ IsFiniteSet(OfOrder(S, o))
         /\ OfOrder(Image(g, S), o) = Image(g, OfOrder(S, o))
         /\ OneToOne(g, OfOrder(S, o))
<1>1. OneToOne(g, S)
  BY NumberedImage
<1>2. OneToOne(g, OfOrder(S, o))
  BY <1>1 DEF OneToOne, OfOrder
<1>3. OfOrder(S, o) \in SUBSET S
  BY DEF OfOrder
<1>4. IsFiniteSet(OfOrder(S, o))
  BY <1>3, FS_Subset DEF Numbered
<1>5. \A r \in S : g[r].order = r.order
  BY DEF SameFill, SameKey
<1> QED BY <1>2, <1>4, <1>5 DEF OfOrder, Image

\* Rewriting keeps the sums over the quantities and values of an order.
LEMMA CumulatedImage ==
  ASSUME NEW S, NEW g, Numbered(S), Cumulated(S), \A r \in S : SameFill(g[r], r) /\ Row(g[r])
  PROVE  Cumulated(Image(g, S))
<1> DEFINE T == Image(g, S)
<1>0. Numbered(T)
  BY NumberedImage
<1> SUFFICES ASSUME NEW t \in S, Highest(T, g[t])
             PROVE  /\ Sum(OfOrder(T, g[t].order), Qtys(T)) = Amount(g[t].side * g[t].cum)
                    /\ Sum(OfOrder(T, g[t].order), Worths(T)) = Amount(g[t].side * g[t].value)
  BY DEF Cumulated, Image
<1>1. /\ g[t].order = t.order /\ g[t].side = t.side /\ g[t].cum = t.cum /\ g[t].value = t.value
      /\ \A r \in S : g[r] \in T /\ g[r].order = r.order /\ g[r].cum = r.cum
  BY DEF SameFill, SameKey, Alike, Image
<1>2. Highest(S, t)
  BY <1>1 DEF Highest
<1> DEFINE O == OfOrder(S, t.order)
           P == OfOrder(T, t.order)
<1>3. IsFiniteSet(O) /\ P = Image(g, O) /\ OneToOne(g, O) /\ O \in SUBSET S
  <2>1. O \in SUBSET S
    BY DEF OfOrder
  <2>2. IsFiniteSet(O) /\ P = Image(g, O) /\ OneToOne(g, O)
    BY OrderImage, Zenon
  <2> QED BY <2>1, <2>2, Zenon
<1>4. \A r \in O : /\ Qtys(S)[r] \in Rational /\ Qtys(T)[g[r]] = Qtys(S)[r]
                   /\ Worths(S)[r] \in Rational /\ Worths(T)[g[r]] = Worths(S)[r]
  <2> SUFFICES ASSUME NEW r \in S
               PROVE  /\ Qtys(S)[r] \in Rational /\ Qtys(T)[g[r]] = Qtys(S)[r]
                      /\ Worths(S)[r] \in Rational /\ Worths(T)[g[r]] = Worths(S)[r]
    BY <1>3
  <2>1. g[r].qty = r.qty /\ g[r].price = r.price /\ g[r] \in T
    BY DEF SameFill, Image
  <2>2. Worth(g[r]) = Worth(r)
    BY <2>1 DEF Worth
  <2> HIDE DEF T
  <2>3. /\ Qtys(T)[g[r]] = Amount(g[r].qty) /\ Worths(T)[g[r]] = Worth(g[r])
        /\ Qtys(S)[r] = Amount(r.qty) /\ Worths(S)[r] = Worth(r)
        /\ Qtys(S)[r] \in Rational /\ Worths(S)[r] \in Rational
    BY <1>0, <2>1, NumberedTypes
  <2> QED BY <2>1, <2>2, <2>3, Zenon
<1> HIDE DEF T, O, P
<1>5. Sum(Image(g, O), Qtys(T)) = Sum(O, Qtys(S))
  <2> DEFINE F == Qtys(S)
             G == Qtys(T)
  <2>1. \A r \in O : F[r] \in Rational /\ G[g[r]] = F[r]
    BY <1>4
  <2> HIDE DEF F, G
  <2>2. Sum(Image(g, O), G) = Sum(O, F)
    BY <1>3, <2>1, TotalImage DEF Image
  <2> QED BY <2>2 DEF F, G
<1>6. Sum(Image(g, O), Worths(T)) = Sum(O, Worths(S))
  <2> DEFINE F == Worths(S)
             G == Worths(T)
  <2>1. \A r \in O : F[r] \in Rational /\ G[g[r]] = F[r]
    BY <1>4
  <2> HIDE DEF F, G
  <2>2. Sum(Image(g, O), G) = Sum(O, F)
    BY <1>3, <2>1, TotalImage DEF Image
  <2> QED BY <2>2 DEF F, G
<1>7. Sum(O, Qtys(S)) = Amount(t.side * t.cum) /\ Sum(O, Worths(S)) = Amount(t.side * t.value)
  BY <1>2 DEF Cumulated, O
<1>8. /\ Sum(P, Qtys(T)) = Amount(t.side * t.cum)
      /\ Sum(P, Worths(T)) = Amount(t.side * t.value)
  BY <1>3, <1>5, <1>6, <1>7, Zenon
<1> QED BY <1>1, <1>8, Zenon DEF P

\* A replay keeps the sums over the charges of an order.
LEMMA ChargedImage ==
  ASSUME NEW S, NEW c, NEW g, Numbered(S), ChargedTo(S, c),
         \A r \in S : SameRow(g[r], r) /\ Row(g[r])
  PROVE  ChargedTo(Image(g, S), c)
<1> DEFINE T == Image(g, S)
           F == Fees(S)
           G == Fees(T)
<1>0. Numbered(T) /\ \A r \in S : SameFill(g[r], r) /\ Row(g[r])
  BY NumberedImage DEF SameRow
<1> SUFFICES ASSUME NEW o \in Orders PROVE Sum(OfOrder(T, o), G) = Amount(c[o])
  BY DEF ChargedTo
<1> DEFINE O == OfOrder(S, o)
<1>1. IsFiniteSet(O) /\ OfOrder(T, o) = Image(g, O) /\ OneToOne(g, O) /\ O \in SUBSET S
  <2>1. O \in SUBSET S
    BY DEF OfOrder
  <2>2. IsFiniteSet(O) /\ OfOrder(T, o) = Image(g, O) /\ OneToOne(g, O)
    BY <1>0, OrderImage, Zenon
  <2> QED BY <2>1, <2>2, Zenon
<1>2. \A r \in O : F[r] \in Rational /\ G[g[r]] = F[r]
  <2> SUFFICES ASSUME NEW r \in S PROVE F[r] \in Rational /\ G[g[r]] = F[r]
    BY <1>1
  <2>1. g[r].fees = r.fees /\ g[r] \in T
    BY DEF SameRow, SameEntry, Image
  <2> HIDE DEF T
  <2> QED BY <1>0, <2>1, NumberedTypes
<1>3. Sum(O, F) = Amount(c[o])
  BY DEF ChargedTo
<1> HIDE DEF O, F, G, T
<1>4. Sum(Image(g, O), G) = Sum(O, F)
  BY <1>1, <1>2, TotalImage DEF Image
<1> QED BY <1>1, <1>3, <1>4

-----------------------------------------------------------------------------
(* _project. *)

\* The row a holding should have, and the realized values its increments should have.
Agrees(S, h, i) ==
  LET mine == RowsIn(S, h) IN
  /\ i.net = Replay(mine).net /\ i.avg = Replay(mine).avg /\ i.realized = Replay(mine).realized
  /\ \A r \in mine : r.realized = Gain(Replay(Before(mine, r)), r)

Rebuilt(S, h) == [r \in S |-> IF r \in RowsIn(S, h) THEN Restated(RowsIn(S, h), r) ELSE r]

\* The increments of a holding have an order of their own.
LEMMA RowsInChrono ==
  ASSUME NEW S, NEW h, Numbered(S)
  PROVE  RowsIn(S, h) \in SUBSET S /\ Chrono(RowsIn(S, h))
<1>1. RowsIn(S, h) \in SUBSET S
  BY DEF RowsIn
<1> QED BY <1>1, NumberedChrono, ChronoSubset

\* What a projection does to an increment.
LEMMA RebuiltIs ==
  ASSUME NEW S, NEW h, Numbered(S), NEW r \in S
  PROVE  /\ SameRow(Rebuilt(S, h)[r], r) /\ Row(Rebuilt(S, h)[r])
         /\ r \in RowsIn(S, h) =>
              Rebuilt(S, h)[r].realized = Gain(Replay(Before(RowsIn(S, h), r)), r)
         /\ r \notin RowsIn(S, h) => Rebuilt(S, h)[r] = r
<1> DEFINE mine == RowsIn(S, h)
           v == Gain(Replay(Before(mine, r)), r)
           g == Rebuilt(S, h)[r]
<1>1. Row(r) /\ r \in Increments /\ r.cum # 0 /\ Entry(r)
  BY DEF Numbered, Row
<1>2. v \in Rational
  <2>1. mine \in SUBSET S /\ Chrono(mine)
    BY RowsInChrono
  <2>2. Before(mine, r) \in SUBSET mine
    BY DEF Before
  <2>3. Replay(Before(mine, r)) \in Book
    BY <2>1, <2>2, ReplayIsFold
  <2> QED BY <1>1, <2>3, BookedParts
<1>3. CASE r \in mine
  <2>1. g = [r EXCEPT !.realized = v]
    BY <1>3 DEF Rebuilt, Restated
  <2>2. v \in Int \X Int
    BY <1>2, RationalParts DEF Positive
  <2> HIDE DEF v, g, mine
  <2>3. g \in Increments /\ g.realized = v
    BY <1>1, <2>1, <2>2 DEF Increments
  <2>4. /\ g.id = r.id /\ g.order = r.order /\ g.holding = r.holding /\ g.side = r.side
        /\ g.cum = r.cum /\ g.value = r.value /\ g.qty = r.qty /\ g.price = r.price
        /\ g.at = r.at /\ g.fees = r.fees
    BY <1>1, <2>1 DEF Increments
  <2>5. SameRow(g, r) /\ Row(g)
    BY <1>1, <1>2, <2>3, <2>4 DEF SameRow, SameFill, SameEntry, SameKey, Alike, Row, Entry
  <2> QED BY <1>3, <2>3, <2>5 DEF v, g, mine
<1>4. CASE r \notin mine
  <2>1. g = r
    BY <1>4 DEF Rebuilt
  <2>2. SameRow(r, r)
    BY DEF SameRow, SameFill, SameEntry, SameKey, Alike
  <2> QED BY <1>1, <1>4, <2>1, <2>2
<1> QED BY <1>3, <1>4

\* A projection rewrites the increments one by one.
LEMMA ProjectImage ==
  ASSUME NEW S, NEW h, NEW flag, NEW kept, Project(S, h, flag, kept)
  PROVE  rows' = Image(Rebuilt(S, h), S)
<1> DEFINE mine == RowsIn(S, h)
<1>1. rows' = (S \ mine) \cup {Restated(mine, r) : r \in mine}
  BY DEF Project
<1>2. mine \subseteq S
  BY DEF RowsIn
<1>3. \A r \in S : Rebuilt(S, h)[r] = IF r \in mine THEN Restated(mine, r) ELSE r
  BY DEF Rebuilt
<1> HIDE DEF mine
<1> QED BY <1>1, <1>2, <1>3 DEF Image

\* The books of a holding after a projection: of its own increments, and of another's.
LEMMA RebuiltBooks ==
  ASSUME NEW S, NEW h, Numbered(S)
  PROVE  LET mine == RowsIn(Image(Rebuilt(S, h), S), h) IN
         /\ Replay(mine) = Replay(RowsIn(S, h))
         /\ \A r \in mine : r.realized = Gain(Replay(Before(mine, r)), r)
         /\ \A j : j # h => RowsIn(Image(Rebuilt(S, h), S), j) = RowsIn(S, j)
<1> DEFINE g == Rebuilt(S, h)
           M == RowsIn(S, h)
           N == RowsIn(Image(g, S), h)
<1>1. \A r \in S : SameRow(g[r], r) /\ (r \in M => g[r].realized = Gain(Replay(Before(M, r)), r))
                   /\ (r \notin M => g[r] = r)
  BY RebuiltIs
<1>2. Chrono(M) /\ M \in SUBSET S
  BY RowsInChrono
<1>3. \A r \in S : g[r].holding = r.holding
  BY <1>1 DEF SameRow, SameFill, SameKey, Alike
<1>4. \A r \in M : SameEntry(g[r], r)
  BY <1>1, <1>2 DEF SameRow
<1>5. N = {g[r] : r \in M}
  BY <1>3 DEF RowsIn, Image
<1>6. \A j : j # h => RowsIn(Image(g, S), j) = RowsIn(S, j)
  <2> SUFFICES ASSUME NEW j, j # h PROVE RowsIn(Image(g, S), j) = RowsIn(S, j)
    OBVIOUS
  <2>1. \A r \in S : r.holding = j => g[r] = r
    BY <1>1 DEF RowsIn
  <2> HIDE DEF g
  <2> QED BY <1>3, <2>1 DEF RowsIn, Image
<1> HIDE DEF g, M
<1>7. Replay(N) = Replay(M)
  <2>1. Replay({g[r] : r \in M}) = Replay(M)
    BY <1>2, <1>4, ReplayImage
  <2> QED BY <1>5, <2>1
<1>8. ASSUME NEW r \in M PROVE g[r].realized = Gain(Replay(Before(N, g[r])), g[r])
  <2>1. Replay(Before({g[t] : t \in M}, g[r])) = Replay(Before(M, r))
    BY <1>2, <1>4, BeforeImage
  <2>2. Gain(Replay(Before(M, r)), g[r]) = Gain(Replay(Before(M, r)), r)
    BY <1>4, SameBooked DEF SameEntry
  <2>3. g[r].realized = Gain(Replay(Before(M, r)), r)
    BY <1>1, <1>2
  <2> QED BY <1>5, <2>1, <2>2, <2>3
<1>9. \A r \in N : r.realized = Gain(Replay(Before(N, r)), r)
  <2> HIDE DEF N
  <2> QED BY <1>5, <1>8
<1> QED BY <1>6, <1>7, <1>9 DEF g, M

\* The tables, of the increments S, the inventory i and the charges c.
Tables(S, c) == Numbered(S) /\ Good(S) /\ Cumulated(S) /\ ChargedTo(S, c)

Holding == [present : BOOLEAN, net : Int, avg : Int \X Int, realized : Int \X Int,
            costed : BOOLEAN, reason : Reasons]
Inventory == [Holdings -> Holding]

Derives(S, i) == i \in Inventory /\ \A h \in Holdings : Agrees(S, h, i[h])

\* A projection of good tables leaves good tables and the inventory they derive.
LEMMA ProjectTables ==
  ASSUME NEW S, NEW c, NEW h \in Holdings, NEW flag \in Reasons, NEW kept \in Reasons,
         Tables(S, c), Derives(rows, inv),
         \A j \in Holdings \ {h} : RowsIn(S, j) = RowsIn(rows, j),
         Project(S, h, flag, kept)
  PROVE  Tables(rows', c) /\ Derives(rows', inv')
<1> DEFINE g == Rebuilt(S, h)
           M == RowsIn(S, h)
           d == Derived(M, IF flag # "" THEN flag ELSE kept)
<1>1. rows' = Image(g, S) /\ inv' = [inv EXCEPT ![h] = d]
  <2>1. inv' = [inv EXCEPT ![h] = d]
    BY DEF Project
  <2> QED BY <2>1, ProjectImage
<1>2. \A r \in S : SameRow(g[r], r) /\ SameFill(g[r], r) /\ Row(g[r])
  BY RebuiltIs DEF Tables, SameRow
<1>3. /\ d.net = Replay(M).net /\ d.avg = Replay(M).avg /\ d.realized = Replay(M).realized
  BY DEF Derived
<1>4. d \in Holding
  <2>1. Replay(M) \in Book
    <3>1. Chrono(M) /\ M \in SUBSET M
      BY RowsInChrono DEF Tables
    <3> HIDE DEF M
    <3> QED BY <3>1, ReplayIsFold
  <2>2. Replay(M).net \in Int /\ Replay(M).avg \in Rational /\ Replay(M).realized \in Rational
    BY <2>1 DEF Book
  <2>3. \A x \in Rational : x \in Int \X Int
    BY RationalParts DEF Positive
  <2>4. Replay(M).avg \in Int \X Int /\ Replay(M).realized \in Int \X Int
    BY <2>2, <2>3
  <2>5. (M # {} /\ \A r \in M : r.costed) \in BOOLEAN /\ (IF flag # "" THEN flag ELSE kept) \in Reasons
    OBVIOUS
  <2> HIDE DEF M
  <2> QED BY <2>2, <2>4, <2>5 DEF Derived, Holding
<1> HIDE DEF g, M, d
<1>5. /\ Numbered(Image(g, S)) /\ Cumulated(Image(g, S)) /\ ChargedTo(Image(g, S), c)
  BY <1>2, NumberedImage, CumulatedImage, ChargedImage DEF Tables
<1>6. Good(Image(g, S))
  BY <1>1, ProjectGood DEF Tables
<1>7. DOMAIN inv = Holdings /\ inv' \in Inventory
  BY <1>1, <1>4 DEF Derives, Inventory
<1>8. inv'[h] = d /\ \A j \in Holdings \ {h} : inv'[j] = inv[j]
  BY <1>1, <1>7
<1>9. Agrees(Image(g, S), h, d)
  BY <1>3, RebuiltBooks DEF Agrees, g, M, Tables
<1>10. ASSUME NEW j \in Holdings \ {h} PROVE Agrees(Image(g, S), j, inv[j])
  <2>1. RowsIn(Image(g, S), j) = RowsIn(rows, j)
    BY RebuiltBooks DEF g, Tables
  <2>2. Agrees(rows, j, inv[j])
    BY DEF Derives
  <2> QED BY <2>1, <2>2 DEF Agrees
<1>11. \A j \in Holdings : Agrees(rows', j, inv'[j])
  BY <1>1, <1>8, <1>9, <1>10
<1> QED BY <1>1, <1>5, <1>6, <1>7, <1>11 DEF Tables, Derives

-----------------------------------------------------------------------------
(* record: a new increment. *)

\* Whole amounts add up like integers.
LEMMA AmountSum ==
  ASSUME NEW m \in Int, NEW n \in Int
  PROVE  Plus(Amount(m), Amount(n)) = Amount(m + n)
<1>1. 1 \in Positive /\ m + n \in Int
  BY DEF Positive
<1>2. /\ Amount(m) \in Rational /\ Is(Amount(m), m, 1) /\ Amount(n) \in Rational /\ Is(Amount(n), n, 1)
      /\ Amount(m + n) \in Rational /\ Is(Amount(m + n), m + n, 1)
  BY <1>1, AmountRational DEF Is, Amount
<1>3. Plus(Amount(m), Amount(n)) \in Rational /\ Is(Plus(Amount(m), Amount(n)), m + n, 1)
  BY <1>1, <1>2, IsPlus
<1> QED BY <1>1, <1>2, <1>3, IsUnique

\* The price of a fill times its quantity is its value.
LEMMA PriceWorth ==
  ASSUME NEW v \in Int, NEW q \in Positive, NEW s \in {1, -1}
  PROVE  Frac(v, q) \in Rational /\ Scale(Frac(v, q), s * q) = Amount(s * v)
<1>1. q \in Int /\ s \in Int /\ s * q \in Int /\ s * v \in Int /\ v * (s * q) \in Int
  BY DEF Positive
<1>2. Frac(v, q) \in Rational /\ Is(Frac(v, q), v, q)
  BY FracIs
<1>3. Scale(Frac(v, q), s * q) \in Rational /\ Is(Scale(Frac(v, q), s * q), v * (s * q), q)
  BY <1>1, <1>2, IsScale
<1>4. Amount(s * v) \in Rational /\ Is(Amount(s * v), (s * v) * q, q)
  BY <1>1, IsAmount
<1>5. v * (s * q) = (s * v) * q
  BY <1>1
<1> QED BY <1>1, <1>2, <1>3, <1>4, <1>5, IsUnique

\* What a new increment is.
LEMMA IncrementParts ==
  ASSUME Good(rows), NEW e \in Reports, News(e)
  PROVE  /\ e.order \in Orders /\ e.holding \in Holdings /\ e.side \in {1, -1}
         /\ e.cum \in Positive /\ e.value \in Positive /\ e.at \in Nat
         /\ PriorCum(e.order) \in Nat /\ PriorVal(e.order) \in Nat
         /\ e.cum - PriorCum(e.order) \in Positive /\ e.value - PriorVal(e.order) \in Positive
         /\ RowsOf(e.order) = {} => PriorCum(e.order) = 0 /\ PriorVal(e.order) = 0
         /\ RowsOf(e.order) # {} => \E t \in RowsOf(e.order) :
               /\ Tops(e.order) = {t} /\ t.cum = PriorCum(e.order) /\ t.value = PriorVal(e.order)
               /\ t.side = e.side /\ t.holding = e.holding
<1>0. /\ e.order \in Orders /\ e.holding \in Holdings /\ e.side \in {1, -1}
      /\ e.cum \in Nat /\ e.value \in Nat /\ e.at \in Nat
  BY ReportsAreCumulative
<1>1. e.cum > PriorCum(e.order) /\ ~Contradicts(e)
  BY DEF News
<1>2. CASE RowsOf(e.order) = {}
  <2>1. {0} \cup {r.cum : r \in RowsOf(e.order)} = {0} /\ {0} \cup {r.value : r \in Tops(e.order)} = {0}
    BY <1>2 DEF Tops
  <2>2. PriorCum(e.order) = 0 /\ PriorVal(e.order) = 0
    BY <2>1 DEF PriorCum, PriorVal, Max
  <2>3. Same(e) = {}
    BY <1>2 DEF Same
  <2>4. e.value > 0
    BY <1>0, <1>1, <2>2, <2>3 DEF Contradicts
  <2> QED BY <1>0, <1>1, <1>2, <2>2, <2>4 DEF Positive
<1>3. CASE RowsOf(e.order) # {}
  <2>1. PICK r \in RowsOf(e.order) : TRUE
    BY <1>3
  <2>2. PICK t \in RowsOf(e.order) :
          /\ Tops(e.order) = {t} /\ r.cum <= t.cum /\ r.value <= t.value /\ Alike(r, t)
          /\ PriorCum(e.order) = t.cum /\ PriorVal(e.order) = t.value
    BY <2>1, Prior
  <2>3. t.cum \in Nat /\ t.value \in Nat
    BY DEF Good, RowsOf, Shaped
  <2>4. t.holding = e.holding /\ t.side = e.side
    BY <1>1, <2>2 DEF Contradicts, Stranger
  <2>5. Same(e) = {}
    <3>1. \A u \in RowsOf(e.order) : u.cum <= t.cum /\ u.cum \in Nat
      BY <2>2 DEF Tops, Good, RowsOf, Shaped
    <3> QED BY <1>0, <1>1, <2>2, <2>3, <3>1 DEF Same
  <2>6. e.value > t.value
    BY <1>0, <1>1, <2>2, <2>3, <2>5 DEF Contradicts
  <2> QED BY <1>0, <1>1, <1>3, <2>2, <2>3, <2>4, <2>6 DEF Positive
<1> QED BY <1>2, <1>3

\* A new increment fits the table, and is worth what the report adds.
LEMMA IncrementRow ==
  ASSUME Good(rows), IsFiniteSet(rows), NEW e \in Reports, News(e)
  PROVE  /\ Row(Increment(e)) /\ Increment(e).id = Cardinality(rows) + 1
         /\ Increment(e).order = e.order /\ Increment(e).holding = e.holding
         /\ Increment(e).side = e.side
         /\ Increment(e).cum = e.cum /\ Increment(e).value = e.value /\ Increment(e).fees = 0
         /\ Amount(Increment(e).qty) = Amount(e.side * (e.cum - PriorCum(e.order)))
         /\ Worth(Increment(e)) = Amount(e.side * (e.value - PriorVal(e.order)))
<1> DEFINE n == Increment(e)
           q == e.cum - PriorCum(e.order)
           v == e.value - PriorVal(e.order)
           p == Frac(v, q)
<1>0. /\ e.order \in Orders /\ e.holding \in Holdings /\ e.side \in {1, -1}
      /\ e.cum \in Positive /\ e.value \in Positive /\ e.at \in Nat
      /\ q \in Positive /\ v \in Positive
  BY IncrementParts
<1>1. n = [id |-> NewId, order |-> e.order, holding |-> e.holding, side |-> e.side,
           cum |-> e.cum, value |-> e.value, qty |-> e.side * q, price |-> p,
           at |-> e.at, fees |-> 0, costed |-> FALSE, realized |-> Amount(0)]
  BY DEF Increment
<1>2. NewId = Cardinality(rows) + 1 /\ NewId \in Nat
  BY FS_CardinalityType DEF NewId
<1> HIDE DEF n, q, v
<1>3. v \in Int /\ q \in Int
  BY <1>0 DEF Positive
<1>4. p \in Rational /\ Scale(p, e.side * q) = Amount(e.side * v)
  BY <1>0, <1>3, PriceWorth
<1>5. p \in Positive \X Positive
  <2>1. PICK g \in Positive, a \in Int, b \in Positive :
          /\ Frac(v, q) = <<a, b>> /\ v = g * a /\ q = g * b
          /\ \A i \in Positive : q % i = 0 /\ v % i = 0 => i <= g
    BY <1>0, <1>3, FracParts, Zenon
  <2>2. a >= 1
    <3> SUFFICES ASSUME a <= 0 PROVE FALSE
      OBVIOUS
    <3>1. g * a <= 0
      BY DEF Positive
    <3> QED BY <1>0, <2>1, <3>1 DEF Positive
  <2> QED BY <2>1, <2>2 DEF Positive
<1>6. Amount(0) \in Rational /\ Amount(0) \in Int \X Int
  BY AmountRational DEF Amount
<1> HIDE DEF p
<1>7. e.side * q \in Int /\ e.side * q # 0
  BY <1>0 DEF Positive
<1>8. n \in Increments
  BY <1>0, <1>1, <1>2, <1>5, <1>6, <1>7 DEF Increments, Positive
<1>9. /\ n.id = NewId /\ n.order = e.order /\ n.holding = e.holding /\ n.side = e.side
      /\ n.cum = e.cum /\ n.value = e.value /\ n.qty = e.side * q /\ n.price = p
      /\ n.at = e.at /\ n.fees = 0 /\ n.realized = Amount(0)
  BY <1>1
<1>10. Row(n)
  BY <1>0, <1>2, <1>4, <1>6, <1>7, <1>8, <1>9 DEF Row, Entry, Positive
<1> QED BY <1>2, <1>4, <1>9, <1>10 DEF n, q, v, Worth

\* With a new increment, the order adds up to the report.
LEMMA RungTables ==
  ASSUME Tables(rows, charged), NEW e \in Reports, News(e)
  PROVE  Tables(rows \cup {Increment(e)}, charged)
<1> DEFINE n == Increment(e)
           S == rows \cup {n}
           o == e.order
           q == e.cum - PriorCum(o)
           v == e.value - PriorVal(o)
           O == RowsOf(o)
<1>0. Good(rows) /\ Numbered(rows) /\ IsFiniteSet(rows) /\ Cumulated(rows) /\ ChargedTo(rows, charged)
  BY DEF Tables, Numbered
<1>1. /\ Row(n) /\ n.id = Cardinality(rows) + 1 /\ n.order = o /\ n.holding = e.holding
      /\ n.side = e.side /\ n.cum = e.cum /\ n.value = e.value /\ n.fees = 0
      /\ Amount(n.qty) = Amount(e.side * q) /\ Worth(n) = Amount(e.side * v)
  BY <1>0, IncrementRow
<1>2. /\ o \in Orders /\ e.side \in {1, -1} /\ e.cum \in Positive /\ e.value \in Positive
      /\ PriorCum(o) \in Nat /\ PriorVal(o) \in Nat /\ q \in Positive /\ v \in Positive
      /\ O = {} => PriorCum(o) = 0 /\ PriorVal(o) = 0
      /\ O # {} => \E t \in O :
            /\ Tops(o) = {t} /\ t.cum = PriorCum(o) /\ t.value = PriorVal(o)
            /\ t.side = e.side /\ t.holding = e.holding
  BY <1>0, IncrementParts
<1>3. Good(S)
  BY <1>0, RungGood
<1> HIDE DEF n
<1>4. Cardinality(rows) \in Nat
  BY <1>0, FS_CardinalityType
<1>5. n \notin rows
  <2>1. \A r \in rows : r.id <= Cardinality(rows)
    BY <1>0 DEF Numbered
  <2> QED BY <1>1, <1>4, <2>1
<1>6. Numbered(S)
  <2>1. IsFiniteSet(S) /\ Cardinality(S) = Cardinality(rows) + 1
    BY <1>0, <1>5, FS_AddElement
  <2>2. \A r \in S : Row(r) /\ r.id \in Nat
    BY <1>0, <1>1 DEF Numbered, Row, Entry
  <2>3. \A r \in rows : r.id <= Cardinality(rows)
    BY <1>0 DEF Numbered
  <2>4. \A r \in S : r.id <= Cardinality(S)
    BY <1>1, <1>4, <2>1, <2>2, <2>3
  <2>5. \A r, t \in S : r.id = t.id => r = t
    BY <1>0, <1>1, <1>4, <2>2, <2>3 DEF Numbered
  <2> HIDE DEF S
  <2> QED BY <2>1, <2>2, <2>4, <2>5 DEF Numbered
<1> DEFINE FQ == Qtys(S)
           FW == Worths(S)
           FF == Fees(S)
<1>7. \A r \in S : /\ FQ[r] = Amount(r.qty) /\ FQ[r] \in Rational
                   /\ FW[r] = Worth(r) /\ FW[r] \in Rational
                   /\ FF[r] = Amount(r.fees) /\ FF[r] \in Rational
  <2> HIDE DEF S
  <2> QED BY <1>6, NumberedTypes
\* The sums over the increments there were.
<1>8. ASSUME NEW p PROVE
        /\ IsFiniteSet(OfOrder(rows, p)) /\ (\A r \in OfOrder(rows, p) : r \in rows)
        /\ Sum(OfOrder(rows, p), FQ) = Sum(OfOrder(rows, p), Qtys(rows))
        /\ Sum(OfOrder(rows, p), FW) = Sum(OfOrder(rows, p), Worths(rows))
        /\ Sum(OfOrder(rows, p), FF) = Sum(OfOrder(rows, p), Fees(rows))
  <2> DEFINE P == OfOrder(rows, p)
             GQ == Qtys(rows)
             GW == Worths(rows)
             GF == Fees(rows)
  <2>1. P \in SUBSET rows
    BY DEF OfOrder
  <2>2. IsFiniteSet(P)
    BY <1>0, <2>1, FS_Subset
  <2>3. \A r \in rows : GQ[r] = Amount(r.qty) /\ GW[r] = Worth(r) /\ GF[r] = Amount(r.fees)
    BY <1>0, NumberedTypes
  <2>4. \A r \in P : r \in S /\ r \in rows
    BY <2>1
  <2> HIDE DEF S, P, FQ, FW, FF, GQ, GW, GF
  <2>5. /\ \A r \in P : FQ[r] \in Rational /\ FQ[r] = GQ[r]
        /\ \A r \in P : FW[r] \in Rational /\ FW[r] = GW[r]
        /\ \A r \in P : FF[r] \in Rational /\ FF[r] = GF[r]
    BY <1>7, <2>3, <2>4, Zenon
  <2>6. Sum(P, FQ) = Sum(P, GQ) /\ Sum(P, FW) = Sum(P, GW) /\ Sum(P, FF) = Sum(P, GF)
    BY <2>2, <2>5, TotalCongruence
  <2> QED BY <2>2, <2>4, <2>6 DEF P, GQ, GW, GF
<1>9. /\ OfOrder(S, o) = OfOrder(rows, o) \cup {n} /\ n \notin OfOrder(rows, o)
      /\ \A p : p # o => OfOrder(S, p) = OfOrder(rows, p)
  BY <1>1, <1>5 DEF OfOrder
<1>10. O = OfOrder(rows, o) /\ IsFiniteSet(O) /\ O \in SUBSET rows
  BY <1>8 DEF OfOrder, RowsOf
<1> HIDE DEF FQ, FW, FF
<1>11. /\ Sum(O \cup {n}, FQ) = Plus(FQ[n], Sum(O, FQ))
       /\ Sum(O \cup {n}, FW) = Plus(FW[n], Sum(O, FW))
       /\ Sum(O \cup {n}, FF) = Plus(FF[n], Sum(O, FF))
  <2>1. /\ \A y \in O \cup {n} : FQ[y] \in Rational
        /\ \A y \in O \cup {n} : FW[y] \in Rational
        /\ \A y \in O \cup {n} : FF[y] \in Rational
    BY <1>7, <1>10
  <2>2. n \notin O
    BY <1>9, <1>10
  <2> HIDE DEF O, S
  <2> QED BY <1>10, <2>1, <2>2, TotalInsert
<1>12. FQ[n] = Amount(e.side * q) /\ FW[n] = Amount(e.side * v) /\ FF[n] = Amount(0)
  BY <1>1, <1>7
<1>13. /\ Sum(O, FQ) = Amount(e.side * PriorCum(o))
       /\ Sum(O, FW) = Amount(e.side * PriorVal(o))
  <2>1. CASE O = {}
    <3>1. e.side * PriorCum(o) = 0 /\ e.side * PriorVal(o) = 0
      BY <1>2, <2>1
    <3>2. Sum({}, FQ) = Amount(0) /\ Sum({}, FW) = Amount(0)
      BY TotalEmpty
    <3> QED BY <2>1, <3>1, <3>2
  <2>2. CASE O # {}
    <3>1. PICK t \in O : /\ Tops(o) = {t} /\ t.cum = PriorCum(o) /\ t.value = PriorVal(o)
                         /\ t.side = e.side
      BY <1>2, <2>2
    <3>2. Highest(rows, t) /\ t \in rows /\ t.order = o
      BY <3>1 DEF Highest, Tops, RowsOf
    <3>3. /\ Sum(OfOrder(rows, o), Qtys(rows)) = Amount(t.side * t.cum)
          /\ Sum(OfOrder(rows, o), Worths(rows)) = Amount(t.side * t.value)
      BY <1>0, <3>2 DEF Cumulated
    <3> QED BY <1>8, <1>10, <3>1, <3>3
  <2> QED BY <2>1, <2>2
<1>14. /\ Sum(OfOrder(S, o), FQ) = Amount(e.side * e.cum)
       /\ Sum(OfOrder(S, o), FW) = Amount(e.side * e.value)
  <2> DEFINE a == e.side * q
             b == e.side * PriorCum(o)
             c == e.side * v
             d == e.side * PriorVal(o)
  <2>1. /\ a \in Int /\ b \in Int /\ c \in Int /\ d \in Int
        /\ a + b = e.side * e.cum /\ c + d = e.side * e.value
    BY <1>2 DEF Positive
  <2>2. Sum(OfOrder(S, o), FQ) = Plus(Amount(a), Amount(b)) /\ Sum(OfOrder(S, o), FW) = Plus(Amount(c), Amount(d))
    BY <1>9, <1>10, <1>11, <1>12, <1>13
  <2> HIDE DEF a, b, c, d, o, S
  <2>3. Plus(Amount(a), Amount(b)) = Amount(a + b) /\ Plus(Amount(c), Amount(d)) = Amount(c + d)
    BY <2>1, AmountSum
  <2> QED BY <2>1, <2>2, <2>3
<1>15. Cumulated(S)
  <2> SUFFICES ASSUME NEW t \in S, Highest(S, t)
               PROVE  /\ Sum(OfOrder(S, t.order), FQ) = Amount(t.side * t.cum)
                      /\ Sum(OfOrder(S, t.order), FW) = Amount(t.side * t.value)
    BY DEF Cumulated, FQ, FW
  <2>1. CASE t.order = o
    <3>1. t = n
      <4>1. \A r \in S : r.cum \in Nat
        BY <1>3 DEF Good, Shaped
      <4>2. n.cum <= t.cum /\ n \in S
        BY <1>1, <2>1 DEF Highest
      <4> SUFFICES ASSUME t # n PROVE FALSE
        OBVIOUS
      <4>3. t \in O
        BY <2>1 DEF RowsOf
      <4>4. PICK u \in O : Tops(o) = {u} /\ u.cum = PriorCum(o)
        BY <1>2, <4>3
      <4>5. t.cum <= PriorCum(o)
        BY <4>3, <4>4 DEF Tops
      <4> QED BY <1>1, <1>2, <4>1, <4>2, <4>5 DEF Positive
    <3> QED BY <1>1, <1>14, <3>1
  <2>2. CASE t.order # o
    <3>1. t \in rows /\ Highest(rows, t)
      BY <1>1, <2>2 DEF Highest
    <3>2. /\ Sum(OfOrder(rows, t.order), Qtys(rows)) = Amount(t.side * t.cum)
          /\ Sum(OfOrder(rows, t.order), Worths(rows)) = Amount(t.side * t.value)
      BY <1>0, <3>1 DEF Cumulated
    <3> QED BY <1>8, <1>9, <2>2, <3>2
  <2> QED BY <2>1, <2>2
<1>16. ChargedTo(S, charged)
  <2> SUFFICES ASSUME NEW p \in Orders PROVE Sum(OfOrder(S, p), FF) = Amount(charged[p])
    BY DEF ChargedTo, FF
  <2>1. Sum(OfOrder(rows, p), FF) = Amount(charged[p])
    BY <1>0, <1>8 DEF ChargedTo
  <2>2. CASE p = o
    <3> DEFINE z == Sum(O, FF)
    <3>1. z \in Rational
      <4>1. \A r \in O : FF[r] \in Rational
        BY <1>7, <1>10
      <4> HIDE DEF O
      <4> QED BY <1>10, <4>1, TotalType
    <3>2. Sum(OfOrder(S, p), FF) = Plus(Amount(0), z)
      BY <1>9, <1>10, <1>11, <1>12, <2>2
    <3> HIDE DEF z
    <3>3. Plus(Amount(0), z) = z
      <4>1. Amount(0) \in Rational
        BY AmountRational
      <4>2. Plus(Amount(0), z) = Plus(z, Amount(0)) /\ Plus(z, Amount(0)) = z
        BY <3>1, <4>1, PlusLaws
      <4> QED BY <4>2
    <3> QED BY <1>10, <2>1, <2>2, <3>2, <3>3 DEF z
  <2>3. CASE p # o
    BY <1>9, <2>1, <2>3
  <2> QED BY <2>2, <2>3
<1> QED BY <1>3, <1>6, <1>15, <1>16 DEF Tables, n

-----------------------------------------------------------------------------
(* apply_fees. *)

\* Zeros add up to zero.
LEMMA TotalZero ==
  ASSUME NEW S, NEW F, IsFiniteSet(S), \A x \in S : F[x] = Amount(0)
  PROVE  Sum(S, F) = Amount(0)
<1> DEFINE Q == {T \in SUBSET S : Sum(T, F) = Amount(0)}
<1>0. Amount(0) \in Rational
  BY AmountRational
<1>1. ASSUME NEW T \in SUBSET S, \A U \in SUBSET T : U # T => U \in Q
      PROVE  T \in Q
  <2>1. CASE T = {}
    BY <2>1, TotalEmpty
  <2>2. CASE T # {}
    <3>1. PICK x \in T : TRUE
      BY <2>2
    <3>2. Sum(T \ {x}, F) = Amount(0)
      BY <1>1, <3>1
    <3>3. IsFiniteSet(T) /\ \A y \in T : F[y] \in Rational
      BY <1>0, FS_Subset
    <3>4. F[x] = Amount(0)
      BY <3>1
    <3>5. Plus(Amount(0), Amount(0)) = Amount(0)
      BY <1>0, PlusLaws
    <3> HIDE DEF Q
    <3>6. Sum(T, F) = Plus(F[x], Sum(T \ {x}, F))
      BY <3>1, <3>3, TotalSplit, Zenon
    <3> QED BY <3>2, <3>4, <3>5, <3>6 DEF Q
  <2> QED BY <2>1, <2>2
<1>2. S \in Q
  <2>1. \A T \in SUBSET S : T \in Q
    <3> HIDE DEF Q
    <3> QED BY <1>1, SubsetInduction
  <2> HIDE DEF Q
  <2> QED BY <2>1
<1> QED BY <1>2

Charge(o, fees, mine) == [r \in rows |-> IF r \in mine THEN Costed(r, o, fees) ELSE r]

\* What charging does to an increment.
LEMMA ChargeIs ==
  ASSUME NEW o, NEW fees \in Nat, NEW mine \in SUBSET rows, NEW r \in rows, Row(r)
  PROVE  /\ SameFill(Charge(o, fees, mine)[r], r) /\ Row(Charge(o, fees, mine)[r])
         /\ r \in mine => Charge(o, fees, mine)[r].fees = IF r.cum = PriorCum(o) THEN fees ELSE 0
         /\ r \notin mine => Charge(o, fees, mine)[r] = r
<1> DEFINE g == Charge(o, fees, mine)[r]
           v == IF r.cum = PriorCum(o) THEN fees ELSE 0
<1>1. r \in Increments /\ Entry(r) /\ r.cum # 0 /\ r.realized \in Rational
  BY DEF Row
<1>2. CASE r \in mine
  <2>1. g = [r EXCEPT !.fees = v, !.costed = TRUE]
    BY <1>2 DEF Charge, Costed
  <2>2. v \in Nat
    OBVIOUS
  <2> HIDE DEF g, v
  <2>3. g \in Increments /\ g.fees = v
    BY <1>1, <2>1, <2>2 DEF Increments
  <2>4. /\ g.id = r.id /\ g.order = r.order /\ g.holding = r.holding /\ g.side = r.side
        /\ g.cum = r.cum /\ g.value = r.value /\ g.qty = r.qty /\ g.price = r.price
        /\ g.at = r.at /\ g.realized = r.realized
    BY <1>1, <2>1 DEF Increments
  <2>5. SameFill(g, r) /\ Row(g)
    BY <1>1, <2>2, <2>3, <2>4 DEF SameFill, SameKey, Alike, Row, Entry
  <2> QED BY <1>2, <2>3, <2>5 DEF g, v
<1>3. CASE r \notin mine
  <2>1. g = r
    BY <1>3 DEF Charge
  <2>2. SameFill(r, r)
    BY DEF SameFill, SameKey, Alike
  <2> QED BY <1>3, <2>1, <2>2
<1> QED BY <1>2, <1>3

\* With new charges, the order is charged them once.
LEMMA CostedTables ==
  ASSUME NEW o \in Orders, NEW h \in Holdings, NEW fees \in Nat,
         Tables(rows, charged), charged \in [Orders -> Nat], RowsIn(RowsOf(o), h) # {}
  PROVE  LET mine == RowsIn(RowsOf(o), h)
             S == (rows \ mine) \cup {Costed(r, o, fees) : r \in mine} IN
         /\ Tables(S, [charged EXCEPT ![o] = fees])
         /\ \A j \in Holdings \ {h} : RowsIn(S, j) = RowsIn(rows, j)
<1> DEFINE mine == RowsIn(RowsOf(o), h)
           S == (rows \ mine) \cup {Costed(r, o, fees) : r \in mine}
           g == Charge(o, fees, mine)
           c == [charged EXCEPT ![o] = fees]
<1>0. Good(rows) /\ Numbered(rows) /\ IsFiniteSet(rows) /\ Cumulated(rows) /\ ChargedTo(rows, charged)
  BY DEF Tables, Numbered
<1>1. mine \in SUBSET rows /\ mine \subseteq RowsOf(o)
  BY DEF RowsIn, RowsOf
<1>2. mine = RowsOf(o)
  <2>1. PICK r \in mine : TRUE
    OBVIOUS
  <2>2. r.holding = h /\ r \in rows /\ r.order = o
    BY <2>1 DEF RowsIn, RowsOf
  <2>3. \A t \in RowsOf(o) : t.holding = h
    BY <1>0, <2>2 DEF Good, Ladder, Alike, RowsOf
  <2> QED BY <2>3 DEF RowsIn
<1>3. \A r \in rows : /\ SameFill(g[r], r) /\ Row(g[r])
                      /\ r \in mine => g[r].fees = IF r.cum = PriorCum(o) THEN fees ELSE 0
                      /\ r \notin mine => g[r] = r
  <2>1. \A r \in rows : Row(r)
    BY <1>0 DEF Numbered
  <2> HIDE DEF mine
  <2> QED BY <1>1, <2>1, ChargeIs
<1>4. S = Image(g, rows)
  <2>1. \A r \in rows : g[r] = IF r \in mine THEN Costed(r, o, fees) ELSE r
    BY DEF Charge
  <2> HIDE DEF g, mine
  <2> QED BY <1>1, <2>1 DEF Image
<1>5. Good(S)
  <2> HIDE DEF mine
  <2> QED BY <1>0, <1>1, CostedGood
<1> HIDE DEF S, g
<1>6. Numbered(S) /\ Cumulated(S)
  <2>1. \A r \in rows : SameFill(g[r], r) /\ Row(g[r])
    BY <1>3
  <2> QED BY <1>0, <1>4, <2>1, NumberedImage, CumulatedImage
<1>7. \A r \in rows : g[r] \in S /\ g[r].order = r.order /\ g[r].holding = r.holding
  BY <1>3, <1>4 DEF Image, SameFill, SameKey, Alike
<1>8. \A j \in Holdings \ {h} : RowsIn(S, j) = RowsIn(rows, j)
  <2>1. \A r \in rows : r.holding # h => g[r] = r
    BY <1>3 DEF RowsIn
  <2> QED BY <1>4, <1>7, <2>1 DEF RowsIn, Image
\* The last increment of the order bears the charges, the others none.
<1> DEFINE O == OfOrder(rows, o)
           F == [r \in rows |-> Amount(IF r.cum = PriorCum(o) THEN fees ELSE 0)]
           G == Fees(S)
<1>9. \A r \in S : G[r] = Amount(r.fees) /\ G[r] \in Rational
  BY <1>6, NumberedTypes
<1>10. O = RowsOf(o) /\ O \in SUBSET rows /\ IsFiniteSet(O)
  BY <1>0, FS_Subset DEF OfOrder, RowsOf
<1>11. /\ OfOrder(S, o) = Image(g, O) /\ OneToOne(g, O)
  <2>1. \A r \in rows : SameFill(g[r], r) /\ Row(g[r])
    BY <1>3
  <2> QED BY <1>0, <1>4, <2>1, OrderImage
<1>12. \A r \in O : F[r] \in Rational /\ G[g[r]] = F[r]
  <2> SUFFICES ASSUME NEW r \in O PROVE F[r] \in Rational /\ G[g[r]] = F[r]
    OBVIOUS
  <2>1. r \in rows /\ r \in mine
    BY <1>2, <1>10
  <2>2. g[r].fees = (IF r.cum = PriorCum(o) THEN fees ELSE 0) /\ g[r] \in S
    BY <1>3, <1>7, <2>1
  <2>3. G[g[r]] = Amount(g[r].fees) /\ G[g[r]] \in Rational
    BY <1>9, <2>2
  <2>4. F[r] = Amount(IF r.cum = PriorCum(o) THEN fees ELSE 0)
    BY <2>1
  <2> HIDE DEF F, G
  <2> QED BY <2>2, <2>3, <2>4
<1>13. PICK t \in O : t.cum = PriorCum(o)
  <2>1. PICK r \in RowsOf(o) : TRUE
    BY <1>1
  <2> QED BY <1>0, <1>10, <2>1, Prior
<1>14. F[t] = Amount(fees) /\ \A r \in O \ {t} : F[r] = Amount(0)
  <2>1. \A r \in O : r.cum = PriorCum(o) => r = t
    BY <1>0, <1>10, <1>13 DEF Good, Ladder, RowsOf
  <2> QED BY <1>10, <1>13, <2>1
<1>15. Sum(OfOrder(S, o), G) = Amount(fees)
  <2> HIDE DEF F, G, O
  <2>1. Sum(Image(g, O), G) = Sum(O, F)
    BY <1>10, <1>11, <1>12, TotalImage DEF Image
  <2>2. Sum(O, F) = Plus(F[t], Sum(O \ {t}, F))
    <3>1. \A x \in O : F[x] \in Rational
      BY <1>12
    <3> QED BY <1>10, <1>13, <3>1, TotalSplit
  <2>3. Sum(O \ {t}, F) = Amount(0)
    <3>1. IsFiniteSet(O \ {t})
      BY <1>10, FS_Subset
    <3> QED BY <1>14, <3>1, TotalZero
  <2>4. Amount(fees) \in Rational
    BY AmountRational
  <2>5. Plus(Amount(fees), Amount(0)) = Amount(fees)
    BY <2>4, PlusLaws
  <2> QED BY <1>11, <1>14, <2>1, <2>2, <2>3, <2>5
<1>16. ASSUME NEW p \in Orders, p # o PROVE Sum(OfOrder(S, p), G) = Amount(charged[p])
  <2> DEFINE P == OfOrder(rows, p)
             H == Fees(rows)
  <2>1. OfOrder(S, p) = P
    <3>1. \A r \in rows : r.order # o => g[r] = r
      BY <1>3 DEF RowsIn, RowsOf
    <3> QED BY <1>4, <1>7, <1>16, <3>1 DEF OfOrder, Image
  <2>2. P \in SUBSET rows /\ IsFiniteSet(P)
    BY <1>0, FS_Subset DEF OfOrder
  <2>3. \A r \in P : r \in S /\ r \in rows
    BY <2>1, <2>2 DEF OfOrder
  <2>4. \A r \in rows : H[r] = Amount(r.fees) /\ H[r] \in Rational
    BY <1>0, NumberedTypes
  <2>5. Sum(P, H) = Amount(charged[p])
    BY <1>0 DEF ChargedTo
  <2> HIDE DEF P, G, H
  <2>6. \A r \in P : G[r] \in Rational /\ G[r] = H[r]
    BY <1>9, <2>3, <2>4
  <2>7. Sum(P, G) = Sum(P, H)
    BY <2>2, <2>6, TotalCongruence
  <2> QED BY <2>1, <2>5, <2>7
<1>17. ChargedTo(S, c)
  <2>1. c[o] = fees /\ \A p \in Orders \ {o} : c[p] = charged[p]
    OBVIOUS
  <2> HIDE DEF c
  <2> QED BY <1>15, <1>16, <2>1 DEF ChargedTo
<1> HIDE DEF c
<1>18. Tables(S, c)
  BY <1>5, <1>6, <1>17 DEF Tables
<1> QED BY <1>8, <1>18 DEF S, c, mine

-----------------------------------------------------------------------------
(* What was heard. *)

\* The increments say as much as the report, and nothing else of its quantity.
Told(S, e) ==
  /\ e.cum = 0 \/ \E r \in S : r.order = e.order /\ e.cum <= r.cum
  /\ \A r \in S : r.order = e.order /\ r.cum = e.cum => r.value = e.value

\* Rewriting the increments leaves told what was told.
LEMMA ToldImage ==
  ASSUME NEW S, NEW g, NEW e, \A r \in S : SameKey(g[r], r), Told(S, e)
  PROVE  Told(Image(g, S), e)
<1>1. \A r \in S : g[r].order = r.order /\ g[r].cum = r.cum /\ g[r].value = r.value /\ g[r] \in Image(g, S)
  BY DEF SameKey, Image
<1>2. e.cum = 0 \/ \E r \in Image(g, S) : r.order = e.order /\ e.cum <= r.cum
  BY <1>1 DEF Told
<1>3. \A r \in Image(g, S) : r.order = e.order /\ r.cum = e.cum => r.value = e.value
  BY <1>1 DEF Told, Image
<1> QED BY <1>2, <1>3 DEF Told

\* What is told does not exceed the highest increment, and is not contradicted.
LEMMA ToldMeans ==
  ASSUME Good(rows), NEW e \in Reports, Told(rows, e)
  PROVE  e.cum <= PriorCum(e.order) /\ \A r \in Same(e) : r.value = e.value
<1>0. e.cum \in Nat
  BY ReportsAreCumulative
<1>1. \A r \in RowsOf(e.order) : \E t \in RowsOf(e.order) :
        r.cum <= t.cum /\ PriorCum(e.order) = t.cum /\ r.cum \in Nat /\ t.cum \in Nat
  <2> SUFFICES ASSUME NEW r \in RowsOf(e.order)
               PROVE  \E t \in RowsOf(e.order) :
                        r.cum <= t.cum /\ PriorCum(e.order) = t.cum /\ r.cum \in Nat /\ t.cum \in Nat
    OBVIOUS
  <2>1. PICK t \in RowsOf(e.order) : r.cum <= t.cum /\ PriorCum(e.order) = t.cum
    BY Prior
  <2> QED BY <2>1 DEF Good, RowsOf, Shaped
<1>2. e.cum <= PriorCum(e.order)
  <2>1. CASE RowsOf(e.order) = {}
    <3>1. {0} \cup {r.cum : r \in RowsOf(e.order)} = {0}
      BY <2>1
    <3>2. PriorCum(e.order) = 0
      BY <3>1 DEF PriorCum, Max
    <3>3. e.cum = 0
      BY <2>1 DEF Told, RowsOf
    <3> QED BY <3>2, <3>3
  <2>2. CASE e.cum = 0 /\ RowsOf(e.order) # {}
    BY <1>1, <2>2
  <2>3. CASE e.cum # 0
    <3>1. PICK r \in RowsOf(e.order) : e.cum <= r.cum
      BY <2>3 DEF Told, RowsOf
    <3> QED BY <1>0, <1>1, <3>1
  <2> QED BY <2>1, <2>2, <2>3
<1> QED BY <1>2 DEF Told, Same, RowsOf

\* A report that brings no news and no contradiction was told already.
LEMMA BenignTold ==
  ASSUME Good(rows), Numbered(rows), NEW e \in Reports, ~Contradicts(e), ~News(e)
  PROVE  Told(rows, e)
<1>0. e.cum \in Nat
  BY ReportsAreCumulative
<1>1. ~(e.cum > PriorCum(e.order))
  BY DEF News
<1>2. e.cum = 0 \/ \E r \in rows : r.order = e.order /\ e.cum <= r.cum
  <2>1. CASE RowsOf(e.order) = {}
    <3>1. {0} \cup {r.cum : r \in RowsOf(e.order)} = {0}
      BY <2>1
    <3>2. PriorCum(e.order) = 0
      BY <3>1 DEF PriorCum, Max
    <3> QED BY <1>0, <1>1, <3>2
  <2>2. CASE RowsOf(e.order) # {}
    <3>1. PICK r \in RowsOf(e.order) : TRUE
      BY <2>2
    <3>2. PICK t \in RowsOf(e.order) : PriorCum(e.order) = t.cum
      BY <3>1, Prior
    <3>3. t \in rows /\ t.order = e.order /\ t.cum \in Nat
      BY DEF Good, RowsOf, Shaped
    <3> QED BY <1>0, <1>1, <3>2, <3>3
  <2> QED BY <2>1, <2>2
<1>3. ASSUME NEW r \in rows, r.order = e.order, r.cum = e.cum PROVE r.value = e.value
  <2>1. e.cum # 0
    BY <1>3 DEF Numbered, Row
  <2>2. r \in Same(e)
    BY <1>3 DEF Same, RowsOf
  <2> QED BY <2>1, <2>2 DEF Contradicts
<1> QED BY <1>2, <1>3 DEF Told

\* A new increment tells its report, and contradicts none told before.
LEMMA RungTold ==
  ASSUME Good(rows), Numbered(rows), NEW e \in Reports, News(e)
  PROVE  /\ Told(rows \cup {Increment(e)}, e)
         /\ \A d \in Reports : Told(rows, d) => Told(rows \cup {Increment(e)}, d)
<1> DEFINE n == Increment(e)
<1>1. n.order = e.order /\ n.cum = e.cum /\ n.value = e.value /\ e.cum \in Positive
  BY IncrementParts DEF Increment
<1> HIDE DEF n
<1>2. \A r \in rows : r.order = e.order => r.cum < e.cum /\ r.cum \in Nat
  <2> SUFFICES ASSUME NEW r \in rows, r.order = e.order PROVE r.cum < e.cum /\ r.cum \in Nat
    OBVIOUS
  <2>1. r \in RowsOf(e.order)
    BY DEF RowsOf
  <2>2. PICK t \in RowsOf(e.order) : r.cum <= t.cum /\ PriorCum(e.order) = t.cum
    BY <2>1, Prior
  <2>3. r.cum \in Nat /\ t.cum \in Nat /\ e.cum \in Nat
    BY <1>1 DEF Good, RowsOf, Shaped, Positive
  <2> QED BY <2>2, <2>3 DEF News
<1>3. Told(rows \cup {n}, e)
  BY <1>1, <1>2 DEF Told, Positive
<1>4. ASSUME NEW d \in Reports, Told(rows, d) PROVE Told(rows \cup {n}, d)
  <2>1. d.cum \in Nat
    BY ReportsAreCumulative
  <2>2. ~(n.order = d.order /\ n.cum = d.cum)
    BY <1>1, <1>2, <1>4, <2>1 DEF Told, Positive
  <2> QED BY <1>4, <2>2 DEF Told
<1> QED BY <1>3, <1>4 DEF n

-----------------------------------------------------------------------------
(* The ledger. *)

LedgerInv ==
  /\ Tables(rows, charged) /\ Derives(rows, inv)
  /\ charged \in [Orders -> Nat] /\ conflicts \subseteq Reports
  /\ doubts \in [Holdings -> SUBSET Reports] /\ heard \subseteq Reports
  /\ \A e \in heard \ conflicts : Told(rows, e)

\* The empty ledger.
LEMMA LedgerInit == Init => LedgerInv
<1> SUFFICES ASSUME Init PROVE LedgerInv
  OBVIOUS
<1>1. rows = {} /\ heard = {} /\ conflicts = {}
  BY DEF Init
<1>2. charged \in [Orders -> Nat] /\ doubts \in [Holdings -> SUBSET Reports]
  BY DEF Init
<1>3. Numbered(rows) /\ Good(rows) /\ Cumulated(rows)
  BY <1>1, FS_EmptySet DEF Numbered, Good, Ladder, Topped, Cumulated
<1>4. ChargedTo(rows, charged)
  <2> SUFFICES ASSUME NEW o \in Orders PROVE Sum(OfOrder(rows, o), Fees(rows)) = Amount(charged[o])
    BY DEF ChargedTo
  <2>1. OfOrder(rows, o) = {} /\ charged[o] = 0
    BY <1>1 DEF OfOrder, Init
  <2> QED BY <2>1, TotalEmpty
<1>5. Derives(rows, inv)
  <2>1. inv = [h \in Holdings |-> Unknown]
    BY DEF Init
  <2>2. Unknown \in Holding
    <3>1. Amount(0) \in Int \X Int /\ "" \in Reasons
      BY DEF Amount, Reasons
    <3> DEFINE a == Amount(0)
               b == ""
    <3>2. Unknown = [present |-> FALSE, net |-> 0, avg |-> a, realized |-> a, costed |-> FALSE, reason |-> b]
      BY DEF Unknown
    <3>3. a \in Int \X Int /\ b \in Reasons
      BY <3>1
    <3> HIDE DEF a, b
    <3> QED BY <3>2, <3>3 DEF Holding
  <2>3. inv \in Inventory
    BY <2>1, <2>2 DEF Inventory
  <2>4. ASSUME NEW h \in Holdings PROVE Agrees(rows, h, inv[h])
    <3>1. RowsIn(rows, h) = {}
      BY <1>1 DEF RowsIn
    <3>2. Chrono({})
      BY FS_EmptySet DEF Chrono
    <3>3. Replay({}) = Flat
      BY <3>2, ReplayIsFold
    <3>4. inv[h] = Unknown
      BY <2>1
    <3>5. /\ Unknown.net = Flat.net /\ Unknown.avg = Flat.avg /\ Unknown.realized = Flat.realized
      BY DEF Unknown, Flat
    <3> QED BY <3>1, <3>3, <3>4, <3>5, Zenon DEF Agrees
  <2> QED BY <2>3, <2>4 DEF Derives
<1> QED BY <1>1, <1>2, <1>3, <1>4, <1>5 DEF LedgerInv, Tables

\* A projection of S leaves told what S told.
LEMMA ProjectTold ==
  ASSUME NEW S, NEW h, NEW flag, NEW kept, NEW e, Numbered(S), Project(S, h, flag, kept), Told(S, e)
  PROVE  Told(rows', e)
<1> DEFINE g == Rebuilt(S, h)
<1>1. rows' = Image(g, S)
  BY ProjectImage
<1>2. \A r \in S : SameKey(g[r], r)
  BY RebuiltIs DEF SameRow, SameFill
<1> HIDE DEF g
<1> QED BY <1>1, <1>2, ToldImage

\* Every action keeps the ledger.
LEMMA LedgerNext == LedgerInv /\ [Next]_vars => LedgerInv'
<1> SUFFICES ASSUME LedgerInv, [Next]_vars PROVE LedgerInv'
  OBVIOUS
<1>0. /\ Tables(rows, charged) /\ Derives(rows, inv) /\ Good(rows) /\ Numbered(rows)
      /\ \A h \in Holdings : inv[h].reason \in Reasons
      /\ "" \in Reasons /\ "conflict" \in Reasons
  BY DEF LedgerInv, Tables, Derives, Inventory, Holding, Reasons
<1>1. ASSUME NEW e \in Reports, RecordFill(e) PROVE LedgerInv'
  <2> DEFINE S == rows \cup {Increment(e)}
  <2>0. News(e) /\ e.holding \in Holdings
    BY <1>1, ReportsAreCumulative DEF RecordFill
  <2>1. Tables(S, charged)
    BY <1>0, <2>0, RungTables
  <2>2. \A j \in Holdings \ {e.holding} : RowsIn(S, j) = RowsIn(rows, j)
    BY DEF RowsIn, Increment
  <2>3. Told(S, e) /\ \A d \in Reports : Told(rows, d) => Told(S, d)
    BY <1>0, <2>0, RungTold
  <2>4. /\ Project(S, e.holding, "", inv[e.holding].reason) /\ heard' = heard \cup {e}
        /\ conflicts' = conflicts /\ doubts' = doubts /\ charged' = charged
    BY <1>1 DEF RecordFill
  <2> HIDE DEF S
  <2>5. Tables(rows', charged) /\ Derives(rows', inv')
    BY <1>0, <2>0, <2>1, <2>2, <2>4, ProjectTables
  <2>6. Numbered(S)
    BY <2>1 DEF Tables
  <2>7. \A d \in heard' \ conflicts' : Told(rows', d)
    BY <2>3, <2>4, <2>6, ProjectTold DEF LedgerInv
  <2> QED BY <2>4, <2>5, <2>7 DEF LedgerInv
<1>2. ASSUME NEW e \in Reports, Quarantine(e) PROVE LedgerInv'
  <2>0. e.holding \in Holdings
    BY ReportsAreCumulative
  <2>1. /\ Project(rows, e.holding, "conflict", inv[e.holding].reason) /\ heard' = heard \cup {e}
        /\ conflicts' = conflicts \cup {e} /\ charged' = charged
        /\ doubts' = [doubts EXCEPT ![e.holding] = @ \cup {e}]
    BY <1>2 DEF Quarantine
  <2>3. Tables(rows', charged) /\ Derives(rows', inv')
    BY <1>0, <2>0, <2>1, ProjectTables
  <2>4. \A d \in heard' \ conflicts' : Told(rows', d)
    BY <1>0, <2>1, ProjectTold DEF LedgerInv
  <2>5. doubts' \in [Holdings -> SUBSET Reports] /\ heard' \subseteq Reports /\ conflicts' \subseteq Reports
    BY <2>1 DEF LedgerInv
  <2> QED BY <2>1, <2>3, <2>4, <2>5 DEF LedgerInv
<1>3. ASSUME NEW e \in Reports, RecordBenign(e) PROVE LedgerInv'
  <2>1. /\ heard' = heard \cup {e} /\ ~Contradicts(e) /\ ~News(e)
        /\ UNCHANGED <<rows, inv, conflicts, doubts, charged>>
    BY <1>3 DEF RecordBenign
  <2>2. Told(rows, e)
    BY <1>0, <2>1, BenignTold
  <2> QED BY <2>1, <2>2 DEF LedgerInv
<1>4. ASSUME NEW o \in Orders, NEW h \in Holdings, NEW fees \in Charges, ApplyFees(o, h, fees)
      PROVE  LedgerInv'
  <2> DEFINE mine == RowsIn(RowsOf(o), h)
             S == (rows \ mine) \cup {Costed(r, o, fees) : r \in mine}
             c == [charged EXCEPT ![o] = fees]
  <2>0. fees \in Nat /\ charged \in [Orders -> Nat]
    BY ChargesAreCosts DEF LedgerInv
  <2>1. /\ mine # {} /\ Project(S, h, "", inv[h].reason) /\ charged' = c
        /\ UNCHANGED <<conflicts, heard, doubts>>
    BY <1>4 DEF ApplyFees
  <2>2. Tables(S, c) /\ \A j \in Holdings \ {h} : RowsIn(S, j) = RowsIn(rows, j)
    BY <1>0, <2>0, <2>1, CostedTables
  <2>3. c \in [Orders -> Nat]
    BY <2>0
  <2>4. \A d : Told(rows, d) => Told(S, d)
    <3> SUFFICES ASSUME NEW d, Told(rows, d) PROVE Told(S, d)
      OBVIOUS
    <3> DEFINE g == Charge(o, fees, mine)
    <3>1. mine \in SUBSET rows
      BY DEF RowsIn, RowsOf
    <3>2. \A r \in rows : Row(r) /\ g[r] = IF r \in mine THEN Costed(r, o, fees) ELSE r
      BY <1>0 DEF Numbered, Charge
    <3> HIDE DEF mine
    <3>3. \A r \in rows : SameKey(g[r], r)
      BY <2>0, <3>1, <3>2, ChargeIs DEF SameFill
    <3> HIDE DEF g
    <3>4. S = Image(g, rows)
      BY <3>1, <3>2 DEF Image
    <3> HIDE DEF S
    <3> QED BY <3>3, <3>4, ToldImage
  <2> HIDE DEF S, c, mine
  <2>6. Tables(rows', c) /\ Derives(rows', inv')
    BY <1>0, <2>1, <2>2, ProjectTables
  <2>7. Numbered(S)
    BY <2>2 DEF Tables
  <2>8. \A d \in heard' \ conflicts' : Told(rows', d)
    BY <2>1, <2>4, <2>7, ProjectTold DEF LedgerInv
  <2> QED BY <2>1, <2>3, <2>6, <2>8 DEF LedgerInv
<1>5. ASSUME NEW h \in Holdings, NEW note \in Notes, Resolve(h, note) PROVE LedgerInv'
  <2>1. /\ Project(rows, h, "", note) /\ UNCHANGED <<conflicts, heard, charged>>
        /\ doubts' = [doubts EXCEPT ![h] = {}]
    BY <1>5 DEF Resolve
  <2>2. note \in Reasons
    BY DEF Reasons
  <2>3. Tables(rows', charged) /\ Derives(rows', inv')
    BY <1>0, <2>1, <2>2, ProjectTables
  <2>4. \A d \in heard' \ conflicts' : Told(rows', d)
    BY <1>0, <2>1, ProjectTold DEF LedgerInv
  <2>5. doubts' \in [Holdings -> SUBSET Reports]
    BY <2>1 DEF LedgerInv
  <2> QED BY <2>1, <2>3, <2>4, <2>5 DEF LedgerInv
<1>6. CASE UNCHANGED vars
  BY <1>6 DEF vars, LedgerInv
<1> QED BY <1>1, <1>2, <1>3, <1>4, <1>5, <1>6 DEF Next

\* The inductive invariant of the ledger.
LEMMA LedgerHolds == Spec => []LedgerInv
BY LedgerInit, LedgerNext, PTL DEF Spec

\* The tables hold increments with positive prices and quantities, and sums that are
\* fractions (fill_ledger.ensure_schema, _project).
THEOREM LedgerTyped == Spec => []LedgerTypeOK
<1>1. LedgerInv => LedgerTypeOK
  BY DEF LedgerInv, LedgerTypeOK, Tables, Derives, Inventory, Holding, Numbered, Row
<1> QED BY <1>1, LedgerHolds, PTL

\* Whatever is reported, however often and in whatever order, the increments of an order add
\* up to its last accepted cumulative figures, and no report but a quarantined one says more
\* or otherwise (fill_ledger.record).
THEOREM BooksAreBrokers == Spec => []BooksMatchBroker
<1>1. LedgerInv => BooksMatchBroker
  <2> SUFFICES ASSUME LedgerInv PROVE BooksMatchBroker
    OBVIOUS
  <2>1. Good(rows) /\ Cumulated(rows) /\ heard \subseteq Reports /\ \A e \in heard \ conflicts : Told(rows, e)
    BY DEF LedgerInv, Tables
  <2>2. \A e \in heard \ conflicts : e.cum <= PriorCum(e.order) /\ \A r \in Same(e) : r.value = e.value
    BY <2>1, ToldMeans
  <2>3. ASSUME NEW r \in rows, NEW t \in Tops(r.order)
        PROVE  /\ Sum(RowsOf(r.order), [x \in rows |-> Amount(x.qty)]) = Amount(t.side * t.cum)
               /\ Sum(RowsOf(r.order), [x \in rows |-> Worth(x)]) = Amount(t.side * t.value)
    <3>1. t \in rows /\ Highest(rows, t) /\ t.order = r.order /\ RowsOf(r.order) = OfOrder(rows, t.order)
      BY DEF Tops, RowsOf, Highest, OfOrder
    <3> QED BY <2>1, <3>1 DEF Cumulated, Qtys, Worths
  <2> QED BY <2>2, <2>3 DEF BooksMatchBroker
<1> QED BY <1>1, LedgerHolds, PTL

\* The charges of an order are on it once (fill_ledger.apply_fees).
THEOREM ChargesAreOnce == Spec => []ChargedOnce
<1>1. LedgerInv => ChargedOnce
  <2> SUFFICES ASSUME LedgerInv, NEW r \in rows
               PROVE  Sum(RowsOf(r.order), [x \in rows |-> Amount(x.fees)]) = Amount(charged[r.order])
    BY DEF ChargedOnce
  <2>1. r.order \in Orders /\ RowsOf(r.order) = OfOrder(rows, r.order)
    BY DEF LedgerInv, Tables, Numbered, Row, Increments, RowsOf, OfOrder
  <2> QED BY <2>1 DEF LedgerInv, Tables, ChargedTo, Fees
<1> QED BY <1>1, LedgerHolds, PTL

\* Of every holding, realized value is what came in, less what was paid and charged, plus
\* what is held at its average (fill_ledger._replay).
THEOREM BooksAlwaysBalance == Spec => []BooksBalance
<1>1. LedgerInv => BooksBalance
  <2> SUFFICES ASSUME LedgerInv, NEW h \in Holdings
               PROVE  LET mine == RowsIn(rows, h) IN
                      inv[h].realized = Minus(Scale(inv[h].avg, inv[h].net),
                        Plus(Sum(mine, [r \in rows |-> Worth(r)]), Sum(mine, [r \in rows |-> Amount(r.fees)])))
    BY DEF BooksBalance
  <2> DEFINE M == RowsIn(rows, h)
             W == Worths(rows)
             C == Fees(rows)
             V == Worths(M)
             D == Fees(M)
  <2>0. Numbered(rows) /\ Agrees(rows, h, inv[h])
    BY DEF LedgerInv, Tables, Derives
  <2>1. Chrono(M) /\ M \in SUBSET rows /\ IsFiniteSet(M)
    BY <2>0, RowsInChrono DEF Chrono
  <2>2. Balances(Replay(M), Sum(M, V), Sum(M, D))
    <3> HIDE DEF M
    <3> QED BY <2>1, ReplayBalance
  <2>3. \A r \in M : W[r] \in Rational /\ V[r] = W[r] /\ C[r] \in Rational /\ D[r] = C[r]
    <3>1. \A r \in M : V[r] = Worth(r) /\ D[r] = Amount(r.fees) /\ r \in rows
      BY <2>1 DEF Worths, Fees
    <3>2. \A r \in rows : W[r] = Worth(r) /\ W[r] \in Rational /\ C[r] = Amount(r.fees) /\ C[r] \in Rational
      BY <2>0, NumberedTypes
    <3> HIDE DEF M, W, C, V, D
    <3> QED BY <3>1, <3>2
  <2>4. Sum(M, V) = Sum(M, W) /\ Sum(M, D) = Sum(M, C)
    <3> HIDE DEF M, W, C, V, D
    <3> QED BY <2>1, <2>3, TotalCongruence
  <2>5. inv[h].net = Replay(M).net /\ inv[h].avg = Replay(M).avg /\ inv[h].realized = Replay(M).realized
    BY <2>0 DEF Agrees
  <2>6. inv[h].realized = Minus(Scale(inv[h].avg, inv[h].net), Plus(Sum(M, W), Sum(M, C)))
    <3> HIDE DEF M, W, C, V, D
    <3> QED BY <2>2, <2>4, <2>5 DEF Balances
  <2> QED BY <2>6 DEF Worths, Fees
<1> QED BY <1>1, LedgerHolds, PTL

\* The realized values of a holding's increments add up to the holding's
\* (fill_ledger.realized_pnl, _project).
THEOREM DayTotalsAlwaysAgree == Spec => []DayTotalsAgree
<1>1. LedgerInv => DayTotalsAgree
  <2> SUFFICES ASSUME LedgerInv, NEW h \in Holdings
               PROVE  Sum(RowsIn(rows, h), [r \in rows |-> r.realized]) = inv[h].realized
    BY DEF DayTotalsAgree
  <2> DEFINE M == RowsIn(rows, h)
             R == [r \in rows |-> r.realized]
             K == Gains(M)
  <2>0. Numbered(rows) /\ Agrees(rows, h, inv[h])
    BY DEF LedgerInv, Tables, Derives
  <2>1. Chrono(M) /\ M \in SUBSET rows /\ IsFiniteSet(M)
    BY <2>0, RowsInChrono DEF Chrono
  <2>2. Sum(M, K) = Replay(M).realized
    <3> HIDE DEF M
    <3> QED BY <2>1, ReplayTotals
  <2>3. \A r \in M : R[r] \in Rational /\ R[r] = K[r]
    <3>1. \A r \in M : r \in rows /\ R[r] = r.realized /\ r.realized \in Rational
      BY <2>0, <2>1 DEF Numbered, Row
    <3>2. \A r \in M : K[r] = Gain(Replay(Before(M, r)), r) /\ r.realized = Gain(Replay(Before(M, r)), r)
      BY <2>0 DEF Gains, Agrees
    <3> HIDE DEF M, R, K
    <3> QED BY <3>1, <3>2
  <2>4. Sum(M, R) = Sum(M, K)
    <3> HIDE DEF M, R, K
    <3> QED BY <2>1, <2>3, TotalCongruence
  <2>5. inv[h].realized = Replay(M).realized
    BY <2>0 DEF Agrees
  <2> QED BY <2>2, <2>4, <2>5
<1> QED BY <1>1, LedgerHolds, PTL

-----------------------------------------------------------------------------
(* Orders heard of once. *)

\* The increment a report was booked as.
Of(e, r) ==
  /\ r.order = e.order /\ r.holding = e.holding /\ r.side = e.side
  /\ r.cum = e.cum /\ r.value = e.value /\ r.at = e.at

\* Increments are of reports, and a contradiction contradicts another report.
HeardInv ==
  /\ \A r \in rows : \E e \in heard : Of(e, r)
  /\ \A e \in conflicts : e.value = 0 \/ \E d \in heard : d.order = e.order /\ d # e

\* Rewriting the increments keeps them of their reports.
LEMMA OfImage ==
  ASSUME NEW S, NEW g, NEW H, \A r \in S : SameFill(g[r], r), \A r \in S : \E e \in H : Of(e, r)
  PROVE  \A r \in Image(g, S) : \E e \in H : Of(e, r)
BY DEF Image, Of, SameFill, SameKey, Alike

LEMMA ProjectOf ==
  ASSUME NEW S, NEW h, NEW flag, NEW kept, NEW H, Numbered(S), Project(S, h, flag, kept),
         \A r \in S : \E e \in H : Of(e, r)
  PROVE  \A r \in rows' : \E e \in H : Of(e, r)
<1> DEFINE g == Rebuilt(S, h)
<1>1. rows' = Image(g, S)
  BY ProjectImage
<1>2. \A r \in S : SameFill(g[r], r)
  BY RebuiltIs DEF SameRow
<1> HIDE DEF g
<1> QED BY <1>1, <1>2, OfImage

\* What contradicts the increments of an order is not its only report, or is worth nothing.
LEMMA Contradicted ==
  ASSUME Good(rows), HeardInv, NEW e \in Reports, Contradicts(e)
  PROVE  e.value = 0 \/ \E d \in heard : d.order = e.order /\ d # e
<1>0. e.cum \in Nat /\ e.value \in Nat
  BY ReportsAreCumulative
<1>1. \A r \in RowsOf(e.order) : \E d \in heard : d.order = e.order /\ Of(d, r)
  BY DEF HeardInv, RowsOf, Of
<1>2. CASE \E r \in RowsOf(e.order) : ~Of(e, r)
  <2>1. PICK r \in RowsOf(e.order) : ~Of(e, r)
    BY <1>2
  <2> QED BY <1>1, <2>1
<1>3. CASE \A r \in RowsOf(e.order) : Of(e, r)
  <2>1. ~Stranger(e) /\ \A r \in Same(e) : r.value = e.value
    BY <1>3 DEF Stranger, Tops, Same, Of
  <2>2. Same(e) = {} /\ e.cum # 0
    BY <2>1 DEF Contradicts
  <2>3. RowsOf(e.order) = {}
    BY <1>3, <2>2 DEF Same, Of
  <2>4. {0} \cup {r.cum : r \in RowsOf(e.order)} = {0} /\ {0} \cup {r.value : r \in Tops(e.order)} = {0}
    BY <2>3 DEF Tops
  <2>5. PriorCum(e.order) = 0 /\ PriorVal(e.order) = 0
    BY <2>4 DEF PriorCum, PriorVal, Max
  <2> QED BY <1>0, <2>1, <2>2, <2>5 DEF Contradicts
<1> QED BY <1>2, <1>3

\* Every action keeps the increments of their reports.
LEMMA HeardNext == LedgerInv /\ HeardInv /\ [Next]_vars => HeardInv'
<1> SUFFICES ASSUME LedgerInv, HeardInv, [Next]_vars PROVE HeardInv'
  OBVIOUS
<1>0. Tables(rows, charged) /\ Good(rows) /\ Numbered(rows) /\ \A r \in rows : \E e \in heard : Of(e, r)
  BY DEF LedgerInv, Tables, HeardInv
<1>1. ASSUME NEW e \in Reports, RecordFill(e) PROVE HeardInv'
  <2> DEFINE S == rows \cup {Increment(e)}
  <2>1. /\ News(e) /\ Project(S, e.holding, "", inv[e.holding].reason)
        /\ heard' = heard \cup {e} /\ conflicts' = conflicts
    BY <1>1 DEF RecordFill
  <2>2. Of(e, Increment(e))
    BY DEF Of, Increment
  <2>3. \A r \in S : \E d \in heard' : Of(d, r)
    BY <1>0, <2>1, <2>2
  <2>4. Numbered(S)
    BY <1>0, <2>1, RungTables DEF Tables
  <2> HIDE DEF S
  <2>5. \A r \in rows' : \E d \in heard' : Of(d, r)
    BY <2>1, <2>3, <2>4, ProjectOf
  <2> QED BY <2>1, <2>5 DEF HeardInv
<1>2. ASSUME NEW e \in Reports, Quarantine(e) PROVE HeardInv'
  <2>1. /\ Project(rows, e.holding, "conflict", inv[e.holding].reason) /\ heard' = heard \cup {e}
        /\ conflicts' = conflicts \cup {e} /\ Contradicts(e)
    BY <1>2 DEF Quarantine
  <2>2. \A r \in rows : \E d \in heard' : Of(d, r)
    BY <1>0, <2>1
  <2>3. \A r \in rows' : \E d \in heard' : Of(d, r)
    BY <1>0, <2>1, <2>2, ProjectOf
  <2>4. e.value = 0 \/ \E d \in heard : d.order = e.order /\ d # e
    BY <1>0, <2>1, Contradicted
  <2> QED BY <2>1, <2>3, <2>4 DEF HeardInv
<1>3. ASSUME NEW e \in Reports, RecordBenign(e) PROVE HeardInv'
  BY <1>3 DEF RecordBenign, HeardInv
<1>4. ASSUME NEW o \in Orders, NEW h \in Holdings, NEW fees \in Charges, ApplyFees(o, h, fees)
      PROVE  HeardInv'
  <2> DEFINE mine == RowsIn(RowsOf(o), h)
             S == (rows \ mine) \cup {Costed(r, o, fees) : r \in mine}
             g == Charge(o, fees, mine)
  <2>1. mine # {} /\ Project(S, h, "", inv[h].reason) /\ heard' = heard /\ conflicts' = conflicts
    BY <1>4 DEF ApplyFees
  <2>2. fees \in Nat /\ charged \in [Orders -> Nat] /\ mine \in SUBSET rows
    BY ChargesAreCosts DEF LedgerInv, RowsIn, RowsOf
  <2>3. Numbered(S)
    BY <1>0, <2>1, <2>2, CostedTables DEF Tables
  <2>4. \A r \in rows : Row(r) /\ g[r] = IF r \in mine THEN Costed(r, o, fees) ELSE r
    BY <1>0 DEF Numbered, Charge
  <2> HIDE DEF mine
  <2>5. \A r \in rows : SameFill(g[r], r)
    BY <2>2, <2>4, ChargeIs
  <2> HIDE DEF g
  <2>6. S = Image(g, rows)
    BY <2>2, <2>4 DEF Image
  <2> HIDE DEF S
  <2>7. \A r \in S : \E d \in heard : Of(d, r)
    BY <1>0, <2>5, <2>6, OfImage
  <2>8. \A r \in rows' : \E d \in heard : Of(d, r)
    BY <2>1, <2>3, <2>7, ProjectOf
  <2> QED BY <2>1, <2>8 DEF HeardInv
<1>5. ASSUME NEW h \in Holdings, NEW note \in Notes, Resolve(h, note) PROVE HeardInv'
  <2>1. Project(rows, h, "", note) /\ heard' = heard /\ conflicts' = conflicts
    BY <1>5 DEF Resolve
  <2>2. \A r \in rows' : \E d \in heard : Of(d, r)
    BY <1>0, <2>1, ProjectOf
  <2> QED BY <2>1, <2>2 DEF HeardInv
<1>6. CASE UNCHANGED vars
  BY <1>6 DEF vars, HeardInv
<1> QED BY <1>1, <1>2, <1>3, <1>4, <1>5, <1>6 DEF Next

\* One addend.
LEMMA TotalSingle ==
  ASSUME NEW x, NEW F, F[x] \in Rational
  PROVE  Sum({x}, F) = F[x]
<1>1. IsFiniteSet({x}) /\ x \in {x} /\ {x} \ {x} = {}
  BY FS_Singleton
<1>2. \A y \in {x} : F[y] \in Rational
  OBVIOUS
<1>3. Sum({x}, F) = Plus(F[x], Sum({x} \ {x}, F))
  BY <1>1, <1>2, TotalSplit, Zenon
<1>4. Sum({}, F) = Amount(0)
  BY TotalEmpty
<1>5. Plus(F[x], Amount(0)) = F[x]
  BY PlusLaws
<1> QED BY <1>1, <1>3, <1>4, <1>5, Zenon

\* A multiple determines what is multiplied.
LEMMA ScaleCancel ==
  ASSUME NEW x \in Rational, NEW y \in Rational, NEW n \in Int, n # 0, Scale(x, n) = Scale(y, n)
  PROVE  x = y
<1>1. PICK D \in Positive, X \in Int, Y \in Int, Z \in Int : Is(x, X, D) /\ Is(y, Y, D) /\ Is(y, Z, D)
  BY Common
<1>2. /\ Scale(x, n) \in Rational /\ Is(Scale(x, n), X * n, D) /\ Is(Scale(y, n), Y * n, D)
      /\ X * n \in Int /\ Y * n \in Int
  BY <1>1, IsScale
<1>3. X * n = Y * n
  BY <1>1, <1>2, IsUnique
<1>4. X = Y
  <2>1. CASE n > 0
    BY <1>3, <2>1, Cancel DEF Positive
  <2>2. CASE n < 0
    <3>1. X * (-n) = Y * (-n) /\ -n \in Positive
      BY <1>3, <2>2 DEF Positive
    <3> QED BY <3>1, Cancel
  <2> QED BY <2>1, <2>2
<1> QED BY <1>1, <1>4, IsUnique

\* The books of an order that is heard of once.
LEMMA AloneIs ==
  ASSUME LedgerInv, HeardInv, NEW e \in heard, Alone(e)
  PROVE  \E r \in rows : /\ RowsOf(e.order) = {r} /\ Of(e, r) /\ r.qty = e.side * e.cum
                         /\ r.price = Frac(e.value, e.cum) /\ r.fees = charged[e.order]
<1>0. /\ Numbered(rows) /\ Good(rows) /\ Cumulated(rows) /\ ChargedTo(rows, charged)
      /\ e \in Reports /\ e.cum \in Positive /\ e.value \in Positive /\ e.side \in {1, -1} /\ e.order \in Orders
  BY ReportsAreCumulative DEF LedgerInv, Tables, Alone, Positive
<1>1. \A d \in heard : d.order = e.order => d = e
  BY DEF Alone
<1>2. e \notin conflicts
  BY <1>0, <1>1 DEF HeardInv, Positive
<1>3. PICK r \in rows : r.order = e.order
  BY <1>0, <1>2 DEF LedgerInv, Told, Positive
<1>4. \A t \in RowsOf(e.order) : Of(e, t)
  BY <1>1 DEF HeardInv, RowsOf, Of
<1>5. RowsOf(e.order) = {r} /\ OfOrder(rows, e.order) = {r} /\ Of(e, r)
  <2>1. r \in RowsOf(e.order) /\ OfOrder(rows, e.order) = RowsOf(e.order)
    BY <1>3 DEF RowsOf, OfOrder
  <2>2. \A t \in RowsOf(e.order) : t.cum = r.cum
    BY <1>4, <2>1 DEF Of
  <2>3. \A t \in RowsOf(e.order) : t = r
    BY <1>0, <1>3, <2>2 DEF Good, Ladder, RowsOf
  <2> QED BY <1>4, <2>1, <2>3
<1>6. r.side = e.side /\ r.cum = e.cum /\ r.value = e.value
  BY <1>5 DEF Of
<1>7. Highest(rows, r)
  <2>1. \A u \in rows : u.order = r.order => u = r
    BY <1>3, <1>5 DEF OfOrder
  <2> QED BY <1>0, <1>6, <2>1 DEF Highest, Positive
<1> DEFINE Q == Qtys(rows)
           W == Worths(rows)
           C == Fees(rows)
<1>8. /\ Q[r] = Amount(r.qty) /\ W[r] = Worth(r) /\ C[r] = Amount(r.fees)
      /\ Q[r] \in Rational /\ W[r] \in Rational /\ C[r] \in Rational
  BY <1>0, NumberedTypes
<1>9. /\ Sum({r}, Q) = Amount(e.side * e.cum) /\ Sum({r}, W) = Amount(e.side * e.value)
      /\ Sum({r}, C) = Amount(charged[e.order])
  BY <1>0, <1>3, <1>5, <1>6, <1>7 DEF Cumulated, ChargedTo
<1> HIDE DEF Q, W, C
<1>10. /\ Amount(r.qty) = Amount(e.side * e.cum) /\ Worth(r) = Amount(e.side * e.value)
       /\ Amount(r.fees) = Amount(charged[e.order])
  BY <1>8, <1>9, TotalSingle
<1>11. r.qty = e.side * e.cum /\ r.fees = charged[e.order]
  BY <1>10 DEF Amount
<1>12. r.price = Frac(e.value, e.cum)
  <2>1. e.value \in Int /\ e.side * e.cum \in Int /\ e.side * e.cum # 0
    BY <1>0 DEF Positive
  <2>2. Frac(e.value, e.cum) \in Rational /\ Scale(Frac(e.value, e.cum), e.side * e.cum) = Amount(e.side * e.value)
    BY <1>0, <2>1, PriceWorth
  <2>3. Scale(r.price, e.side * e.cum) = Amount(e.side * e.value)
    BY <1>10, <1>11 DEF Worth
  <2>4. r.price \in Rational
    BY <1>0 DEF Numbered, Row, Entry
  <2> QED BY <2>1, <2>2, <2>3, <2>4, ScaleCancel
<1> QED BY <1>5, <1>11, <1>12

\* Orders that are each heard of once leave the books of the exchange's order, whenever they are
\* heard of and charged (fill_ledger._canonical, _replay).
THEOREM OrdersCommute == Spec => []WholeOrdersCommute
<1>1. Init => HeardInv
  BY DEF Init, HeardInv
<1>2. LedgerInv /\ HeardInv => WholeOrdersCommute
  <2> SUFFICES ASSUME LedgerInv, HeardInv, NEW h \in Holdings, \A e \in heard : e.holding = h => Alone(e)
               PROVE  AsOnTime(h)
    BY DEF WholeOrdersCommute
  <2> DEFINE M == RowsIn(rows, h)
             E == {e \in heard : e.holding = h}
             g == [r \in M |-> [id |-> r.at, qty |-> r.qty, price |-> r.price, at |-> r.at,
                                fees |-> r.fees]]
  <2>0. Numbered(rows) /\ Agrees(rows, h, inv[h])
    BY DEF LedgerInv, Tables, Derives
  <2>1. Chrono(M) /\ M \in SUBSET rows
    BY <2>0, RowsInChrono
  <2>2. ASSUME NEW r \in M
        PROVE  \E e \in E : /\ RowsOf(e.order) = {r} /\ Of(e, r) /\ r.qty = e.side * e.cum
                            /\ r.price = Frac(e.value, e.cum) /\ r.fees = charged[e.order]
    <3>1. r \in rows /\ r.holding = h
      BY DEF RowsIn
    <3>2. PICK e \in heard : Of(e, r)
      BY <3>1 DEF HeardInv
    <3>3. e \in E /\ Alone(e) /\ r \in RowsOf(e.order)
      BY <3>1, <3>2 DEF Of, RowsOf
    <3> HIDE DEF E, M
    <3>4. PICK t \in rows : /\ RowsOf(e.order) = {t} /\ Of(e, t) /\ t.qty = e.side * e.cum
                            /\ t.price = Frac(e.value, e.cum) /\ t.fees = charged[e.order]
      BY <3>3, AloneIs
    <3> QED BY <3>3, <3>4
  <2>3. ASSUME NEW r \in M, NEW t \in M, r.at = t.at PROVE r = t
    <3>1. PICK d \in E : RowsOf(d.order) = {r} /\ Of(d, r)
      BY <2>2
    <3>2. PICK e \in E : RowsOf(e.order) = {t} /\ Of(e, t)
      BY <2>2
    <3>3. d = e
      BY <2>3, <3>1, <3>2 DEF Of, Alone
    <3> QED BY <3>1, <3>2, <3>3
  <2>4. \A r \in M : g[r] = [id |-> r.at, qty |-> r.qty, price |-> r.price, at |-> r.at, fees |-> r.fees]
    OBVIOUS
  <2>5. {g[r] : r \in M} = {OnTime(e) : e \in E}
    <3>1. ASSUME NEW r \in M PROVE \E e \in E : g[r] = OnTime(e)
      <4>1. PICK e \in E : /\ Of(e, r) /\ r.qty = e.side * e.cum
                           /\ r.price = Frac(e.value, e.cum) /\ r.fees = charged[e.order]
        BY <2>2
      <4>2. r.at = e.at
        BY <4>1 DEF Of
      <4> QED BY <2>4, <4>1, <4>2 DEF OnTime
    <3>2. ASSUME NEW e \in E PROVE \E r \in M : g[r] = OnTime(e)
      <4>1. Alone(e) /\ e \in heard /\ e.holding = h
        OBVIOUS
      <4>2. PICK r \in rows : /\ Of(e, r) /\ r.qty = e.side * e.cum
                              /\ r.price = Frac(e.value, e.cum) /\ r.fees = charged[e.order]
        <5> HIDE DEF E
        <5> QED BY <4>1, AloneIs
      <4>3. r \in M /\ r.at = e.at
        BY <4>1, <4>2 DEF Of, RowsIn
      <4> QED BY <2>4, <4>2, <4>3 DEF OnTime
    <3> HIDE DEF g, M, E
    <3> QED BY <3>1, <3>2
  <2> HIDE DEF g
  <2>6. \A r \in M : /\ g[r].id = r.at /\ g[r].at = r.at /\ g[r].qty = r.qty
                     /\ g[r].price = r.price /\ g[r].fees = r.fees
    <3> SUFFICES ASSUME NEW r \in M
                 PROVE  /\ g[r].id = r.at /\ g[r].at = r.at /\ g[r].qty = r.qty
                        /\ g[r].price = r.price /\ g[r].fees = r.fees
      OBVIOUS
    <3>1. g[r] = [id |-> r.at, qty |-> r.qty, price |-> r.price, at |-> r.at, fees |-> r.fees]
      BY <2>4
    <3> HIDE DEF M
    <3> QED BY <3>1
  <2>7. OneToOne(g, M)
    BY <2>3, <2>6 DEF OneToOne
  <2>8. Chrono({g[r] : r \in M})
    <3> HIDE DEF M
    <3>1. IsFiniteSet({g[r] : r \in M})
      BY <2>1, <2>7, ImageFinite DEF Chrono
    <3>2. \A r \in M : Entry(g[r])
      BY <2>1, <2>6 DEF Chrono, Entry
    <3>3. \A r, t \in M : g[r].id = g[t].id => g[r] = g[t]
      BY <2>3, <2>6
    <3> QED BY <3>1, <3>2, <3>3 DEF Chrono
  <2>9. \A r, t \in M : Earlier(g[r], g[t]) <=> Earlier(r, t)
    <3> SUFFICES ASSUME NEW r \in M, NEW t \in M PROVE Earlier(g[r], g[t]) <=> Earlier(r, t)
      OBVIOUS
    <3>1. Entry(r) /\ Entry(t)
      BY <2>1 DEF Chrono
    <3> HIDE DEF M
    <3> QED BY <2>3, <2>6, <3>1 DEF Earlier, Entry
  <2>10. Replay({OnTime(e) : e \in E}) = Replay(M)
    <3> HIDE DEF M, E
    <3>1. Replay({g[r] : r \in M}) = Replay(M)
      BY <2>1, <2>6, <2>7, <2>8, <2>9, ReplayAlong
    <3> QED BY <2>5, <3>1
  <2>11. inv[h].net = Replay(M).net /\ inv[h].avg = Replay(M).avg /\ inv[h].realized = Replay(M).realized
    BY <2>0 DEF Agrees
  <2> QED BY <2>10, <2>11 DEF AsOnTime
<1> QED BY <1>1, <1>2, LedgerInit, LedgerNext, HeardNext, PTL DEF Spec
=============================================================================
