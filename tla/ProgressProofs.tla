---------------------------- MODULE ProgressProofs ----------------------------
(***************************************************************************)
(* What the numbers of a progress are worth, whatever the precision they   *)
(* are computed with, and that no news is lost, for any threads,           *)
(* delegates, parts, totals and operations.                                *)
(***************************************************************************)
EXTENDS Progress, Integers, WellFoundedInduction, TLAPS

----------------------------------------------------------------------------
(* The arithmetic of doubles. *)

\* A set of natural numbers that is not empty has a least one.
LEMMA LeastNumber ==
    ASSUME NEW T, T \subseteq Nat, T # {}
    PROVE  \E n \in T : \A m \in T : n <= m
<1> DEFINE R == OpToRel(<, Nat)
<1>1. IsWellFoundedOn(R, Nat)
  BY NatLessThanWellFounded
<1>2. \A m, n \in Nat : m < n => <<m, n>> \in R
  BY DEF OpToRel
<1> HIDE DEF R
<1>3. PICK n \in T : \A m \in T : ~ (<<m, n>> \in R)
  BY <1>1, WFMin
<1>4. ASSUME NEW m \in T PROVE n <= m
  <2>1. m \in Nat /\ n \in Nat /\ ~(m < n)
    BY <1>2, <1>3
  <2> QED
    BY <2>1
<1> QED
  BY <1>4

\* Rounding to a whole number is off by half at most.
LEMMA RoundedNear ==
    ASSUME NEW x \in Nat, NEW s \in Nat \ {0}
    PROVE  /\ Rounded(x, s) \in Nat
           /\ 2 * (s * Rounded(x, s)) <= 2 * x + s
           /\ 2 * x <= 2 * (s * Rounded(x, s)) + s
<1> DEFINE q == x \div s
           r == x % s
<1>1. q \in Nat /\ r \in 0..(s - 1) /\ x = s * q + r
  OBVIOUS
<1>2. Rounded(x, s) = IF 2 * r < s \/ (2 * r = s /\ q % 2 = 0) THEN q ELSE q + 1
  BY DEF Rounded
<1> HIDE DEF q, r
<1>3. CASE Rounded(x, s) = q /\ 2 * r <= s
  BY <1>1, <1>3
<1>4. CASE Rounded(x, s) = q + 1 /\ 2 * r >= s
  <2>1. s * (q + 1) = s * q + s
    BY <1>1
  <2> QED
    BY <1>1, <1>4, <2>1
<1> QED
  BY <1>1, <1>2, <1>3, <1>4

\* What is larger is not rounded to less.
LEMMA RoundedGrows ==
    ASSUME NEW x \in Nat, NEW z \in Nat, x <= z, NEW s \in Nat \ {0}
    PROVE  Rounded(x, s) <= Rounded(z, s)
<1> DEFINE q == x \div s
           r == x % s
           p == z \div s
           t == z % s
<1>1. /\ q \in Nat /\ r \in 0..(s - 1) /\ x = s * q + r
      /\ p \in Nat /\ t \in 0..(s - 1) /\ z = s * p + t
  OBVIOUS
<1>2. /\ Rounded(x, s) = IF 2 * r < s \/ (2 * r = s /\ q % 2 = 0) THEN q ELSE q + 1
      /\ Rounded(z, s) = IF 2 * t < s \/ (2 * t = s /\ p % 2 = 0) THEN p ELSE p + 1
  BY DEF Rounded
<1> HIDE DEF q, r, p, t
<1>3. CASE q < p
  BY <1>1, <1>2, <1>3
<1>4. CASE q = p
  <2>1. r <= t
    BY <1>1, <1>4
  <2> QED
    BY <1>1, <1>2, <1>4, <2>1
<1>5. CASE q > p
  <2>1. s * q >= s * (p + 1) /\ s * (p + 1) = s * p + s
    BY <1>1, <1>5
  <2> QED
    BY <1>1, <2>1
<1> QED
  BY <1>1, <1>3, <1>4, <1>5

\* A whole number stays as it is.
LEMMA RoundedExact ==
    ASSUME NEW m \in Nat, NEW s \in Nat \ {0}
    PROVE  Rounded(s * m, s) = m
<1>1. (s * m) \div s = m /\ (s * m) % s = 0
  OBVIOUS
<1> QED
  BY <1>1 DEF Rounded

\* There is a spacing around every number.
LEMMA SpacingFits ==
    ASSUME NEW x \in Nat, NEW y \in Nat \ {0}
    PROVE  /\ Spacing(x, y) \in Spacings /\ Spacing(x, y) \in Nat \ {0}
           /\ Fits(Spacing(x, y), x, y)
           /\ \A w \in Spacings : Fits(w, x, y) => w <= Spacing(x, y)
<1> USE DoublesAssumption
<1> DEFINE T == {n \in Nat : \A w \in Spacings : Fits(w, x, y) => w <= n}
<1>1. ASSUME NEW w \in Spacings, Fits(w, x, y) PROVE w <= x + 1
  <2>1. CASE w = 1
    BY <2>1
  <2>2. CASE w * Accuracy * y <= x
    <3>1. w \in Nat /\ Accuracy * y \in Nat \ {0} /\ w * Accuracy * y = w * (Accuracy * y)
      OBVIOUS
    <3>2. w <= w * (Accuracy * y)
      BY <3>1
    <3> QED
      BY <2>2, <3>1, <3>2
  <2> QED
    BY <1>1, <2>1, <2>2 DEF Fits
<1>2. x + 1 \in T
  BY <1>1
<1>3. PICK n \in T : \A m \in T : n <= m
  BY <1>2, LeastNumber
<1>4. n \in Spacings /\ Fits(n, x, y)
  <2> SUFFICES ASSUME ~(n \in Spacings /\ Fits(n, x, y)) PROVE FALSE
    OBVIOUS
  <2>1. n \in Nat /\ n >= 1
    BY DEF Fits
  <2>2. ASSUME NEW w \in Spacings, Fits(w, x, y) PROVE w <= n - 1
    <3>1. w \in Nat /\ w <= n /\ w # n
      BY <2>2
    <3> QED
      BY <2>1, <3>1
  <2>3. n - 1 \in T
    BY <2>1, <2>2
  <2> QED
    BY <1>3, <2>1, <2>3
<1>5. \A w \in Spacings : Fits(w, x, y) => w <= n
  OBVIOUS
<1>6. \E u \in Spacings : Fits(u, x, y) /\ \A w \in Spacings : Fits(w, x, y) => w <= u
  BY <1>4, <1>5
<1>7. /\ Spacing(x, y) \in Spacings /\ Fits(Spacing(x, y), x, y)
      /\ \A w \in Spacings : Fits(w, x, y) => w <= Spacing(x, y)
  BY ONLY <1>6 DEF Spacing
<1> QED
  BY <1>7

\* A double is a multiple of the spacing around it.
LEMMA Multiple ==
    ASSUME NEW d \in Nat, IsDouble(d)
    PROVE  \E m \in Nat : d = Spacing(d, 1) * m
<1> DEFINE u == Spacing(d, 1)
<1>1. u \in Nat \ {0}
  BY SpacingFits
<1>2. d % u = 0
  BY DEF IsDouble
<1> HIDE DEF u
<1>3. d \div u \in Nat /\ d = u * (d \div u)
  BY <1>1, <1>2
<1>4. \E m \in Nat : d = u * m
  BY <1>3
<1> QED
  BY <1>4 DEF u

\* A double is a double of its own, however it is written.
LEMMA NearestExact ==
    ASSUME NEW d \in Nat, IsDouble(d), NEW y \in Nat \ {0}
    PROVE  Nearest(d * y, y) = d
<1>1. ASSUME NEW w \in Spacings PROVE Fits(w, d * y, y) <=> Fits(w, d, 1)
  <2>1. w \in Nat /\ w * Accuracy \in Nat
    BY DoublesAssumption
  <2> DEFINE a == w * Accuracy
  <2> HIDE DEF a
  <2>2. a * y <= d * y <=> a <= d
    <3>1. a <= d => a * y <= d * y
      BY <2>1 DEF a
    <3>2. a >= d + 1 => a * y >= (d + 1) * y /\ (d + 1) * y = d * y + y
      BY <2>1 DEF a
    <3> QED
      BY <2>1, <3>1, <3>2 DEF a
  <2>3. a * 1 = a
    BY <2>1 DEF a
  <2> QED
    BY <2>2, <2>3 DEF Fits, a
<1> DEFINE u == Spacing(d, 1)
<1>2. Spacing(d * y, y) = u
  BY ONLY <1>1 DEF Spacing
<1>3. u \in Nat \ {0}
  BY SpacingFits
<1>4. PICK m \in Nat : d = u * m
  BY Multiple
<1> HIDE DEF u
<1>5. u * y \in Nat \ {0} /\ d * y = (u * y) * m
  BY <1>3, <1>4
<1>6. Rounded(d * y, u * y) = m
  BY <1>5, RoundedExact
<1> QED
  BY <1>2, <1>4, <1>6 DEF Nearest

\* The nearest double is a number, and off by half a spacing at most.
LEMMA NearestNear ==
    ASSUME NEW x \in Nat, NEW y \in Nat \ {0}
    PROVE  /\ Nearest(x, y) \in Nat
           /\ 2 * (Nearest(x, y) * y) <= 2 * x + Spacing(x, y) * y
           /\ 2 * x <= 2 * (Nearest(x, y) * y) + Spacing(x, y) * y
<1> DEFINE u == Spacing(x, y)
           m == Rounded(x, u * y)
<1>1. u \in Nat \ {0}
  BY SpacingFits
<1>2. Nearest(x, y) = u * m
  BY DEF Nearest
<1>3. u * y \in Nat \ {0}
  BY <1>1
<1>4. /\ m \in Nat /\ 2 * ((u * y) * m) <= 2 * x + u * y
      /\ 2 * x <= 2 * ((u * y) * m) + u * y
  BY <1>3, RoundedNear
<1> HIDE DEF u, m
<1>5. (u * y) * m = (u * m) * y /\ u * m \in Nat
  BY <1>1, <1>4
<1> QED
  BY <1>2, <1>4, <1>5 DEF u

\* The nearest double is close where doubles are accurate, and between whole numbers.
LEMMA NearestAccurate ==
    ASSUME NEW x \in Nat, NEW y \in Nat \ {0}, y = 1 \/ Accuracy * y <= x
    PROVE  /\ 2 * Accuracy * (Nearest(x, y) * y) <= (2 * Accuracy + 1) * x
           /\ (2 * Accuracy - 1) * x <= 2 * Accuracy * (Nearest(x, y) * y)
<1> DEFINE u == Spacing(x, y)
           d == Nearest(x, y) * y
<1>1. /\ u \in Nat \ {0} /\ Nearest(x, y) \in Nat
      /\ 2 * d <= 2 * x + u * y /\ 2 * x <= 2 * d + u * y
  BY SpacingFits, NearestNear, Zenon
<1>2. d \in Nat
  BY <1>1
<1>3. Accuracy \in Nat
  BY DoublesAssumption
<1>4. CASE u * Accuracy * y <= x
  <2> HIDE DEF u, d
  <2>1. Accuracy * (u * y) = u * Accuracy * y
    BY <1>1, <1>2, <1>3
  <2>2. Accuracy * (2 * d) <= Accuracy * (2 * x + u * y)
    BY <1>1, <1>2, <1>3
  <2>3. Accuracy * (2 * x) <= Accuracy * (2 * d + u * y)
    BY <1>1, <1>2, <1>3
  <2>4. 2 * Accuracy * d <= (2 * Accuracy + 1) * x /\ (2 * Accuracy - 1) * x <= 2 * Accuracy * d
    BY <1>1, <1>2, <1>3, <1>4, <2>1, <2>2, <2>3
  <2> QED
    BY <2>4 DEF d
<1>5. CASE ~(u * Accuracy * y <= x)
  <2>1. u = 1
    BY <1>5, SpacingFits DEF Fits
  <2>2. y = 1
    BY <1>3, <1>5, <2>1
  <2>3. Nearest(x, y) = x
    <3>1. x = 1 * x /\ 1 * 1 = 1
      OBVIOUS
    <3>2. Rounded(x, 1) = x
      BY <3>1, RoundedExact
    <3> QED
      BY <2>1, <2>2, <3>1, <3>2 DEF Nearest
  <2> QED
    BY <1>3, <2>2, <2>3
<1> QED
  BY <1>4, <1>5

\* A number below the beginning of a wider spacing is not rounded beyond it.
LEMMA NearestBelow ==
    ASSUME NEW x \in Nat, NEW y \in Nat \ {0}, NEW w \in Spacings, Spacing(x, y) < w
    PROVE  Nearest(x, y) <= w * Accuracy /\ x < w * Accuracy * y
<1> DEFINE u == Spacing(x, y)
           j == w \div u
<1>1. u \in Spacings /\ u \in Nat \ {0}
  BY SpacingFits
<1>2. w \in Nat \ {0} /\ w % u = 0 /\ u < w /\ Accuracy \in Nat
  BY <1>1, DoublesAssumption
<1>3. x < w * Accuracy * y
  BY <1>2, SpacingFits DEF Fits
<1> HIDE DEF u
<1>4. j \in Nat /\ w = u * j
  BY <1>1, <1>2
<1> HIDE DEF j
<1>5. u * y \in Nat \ {0} /\ j * Accuracy \in Nat /\ w * Accuracy * y = (u * y) * (j * Accuracy)
  BY <1>1, <1>2, <1>4
<1>6. Rounded(x, u * y) <= j * Accuracy
  <2>1. x <= (u * y) * (j * Accuracy) /\ (u * y) * (j * Accuracy) \in Nat
    BY <1>3, <1>5
  <2>2. Rounded(x, u * y) <= Rounded((u * y) * (j * Accuracy), u * y)
    BY <1>5, <2>1, RoundedGrows
  <2> QED
    BY <1>5, <2>2, RoundedExact
<1>7. Rounded(x, u * y) \in Nat
  BY <1>5, RoundedNear
<1>8. u * Rounded(x, u * y) <= u * (j * Accuracy) /\ u * (j * Accuracy) = w * Accuracy
  BY <1>1, <1>2, <1>4, <1>5, <1>6, <1>7
<1> QED
  BY <1>3, <1>8 DEF Nearest, u

\* What is larger is not rounded to less, whatever the spacings.
LEMMA NearestGrows ==
    ASSUME NEW x \in Nat, NEW z \in Nat, x <= z, NEW y \in Nat \ {0}
    PROVE  Nearest(x, y) <= Nearest(z, y)
<1> DEFINE u == Spacing(x, y)
           w == Spacing(z, y)
<1>1. /\ u \in Spacings /\ u \in Nat \ {0} /\ Fits(u, x, y)
      /\ w \in Spacings /\ w \in Nat \ {0} /\ Fits(w, z, y)
      /\ \A v \in Spacings : Fits(v, z, y) => v <= w
  BY SpacingFits
<1>2. u <= w
  <2>1. u * Accuracy * y \in Nat
    BY <1>1, DoublesAssumption
  <2>2. Fits(u, z, y)
    BY <1>1, <2>1 DEF Fits
  <2> QED
    BY <1>1, <2>2
<1>3. CASE u = w
  <2> HIDE DEF u, w
  <2>1. u * y \in Nat \ {0}
    BY <1>1
  <2>2. /\ Rounded(x, u * y) <= Rounded(z, u * y)
        /\ Rounded(x, u * y) \in Nat /\ Rounded(z, u * y) \in Nat
    BY <2>1, RoundedGrows, RoundedNear
  <2>3. u * Rounded(x, u * y) <= u * Rounded(z, u * y)
    BY <1>1, <2>2
  <2> QED
    BY <1>3, <2>3 DEF Nearest, u, w
<1>4. CASE u < w
  <2>1. Nearest(x, y) <= w * Accuracy
    BY <1>1, <1>4, NearestBelow
  <2>2. w * Accuracy * y <= z
    BY <1>1, <1>4 DEF Fits
  <2> HIDE DEF u, w
  <2>3. /\ Accuracy \in Nat /\ w * y \in Nat \ {0} /\ (w * y) * Accuracy \in Nat
        /\ (w * y) * Accuracy <= z
    BY <1>1, <2>2, DoublesAssumption
  <2>4. Rounded((w * y) * Accuracy, w * y) <= Rounded(z, w * y)
    BY <2>3, RoundedGrows
  <2>5. Rounded((w * y) * Accuracy, w * y) = Accuracy
    BY <2>3, RoundedExact
  <2>6. Rounded(z, w * y) \in Nat
    BY <2>3, RoundedNear
  <2>7. w * Accuracy <= w * Rounded(z, w * y)
    BY <1>1, <2>3, <2>4, <2>5, <2>6
  <2>8. Nearest(z, y) = w * Rounded(z, w * y)
    BY DEF Nearest, w
  <2>9. w * Accuracy \in Nat /\ w * Rounded(z, w * y) \in Nat
    BY <1>1, <2>3, <2>6
  <2>10. Nearest(x, y) \in Nat
    BY NearestNear
  <2> QED
    BY <2>1, <2>7, <2>8, <2>9, <2>10
<1> QED
  BY <1>1, <1>2, <1>3, <1>4

\* The result of an operation is a double.
LEMMA NearestIsDouble ==
    ASSUME NEW x \in Nat, NEW y \in Nat \ {0}
    PROVE  Nearest(x, y) \in Nat /\ IsDouble(Nearest(x, y))
<1> DEFINE d == Nearest(x, y)
           u == Spacing(x, y)
           w == Spacing(d, 1)
           m == Rounded(x, u * y)
<1>1. d \in Nat
  BY NearestNear
<1>2. /\ u \in Spacings /\ u \in Nat \ {0}
      /\ w \in Spacings /\ w \in Nat \ {0} /\ Fits(w, d, 1)
  BY <1>1, SpacingFits
<1>3. m \in Nat /\ d = u * m
  <2>1. u * y \in Nat \ {0}
    BY <1>2
  <2> QED
    BY <2>1, RoundedNear DEF Nearest
<1>4. CASE w <= u
  <2>1. w = u \/ u % w = 0
    BY <1>2, <1>4, DoublesAssumption
  <2>2. u % w = 0
    <3>1. CASE w = u
      <4> HIDE DEF u, w, d, m
      <4> QED
        BY <1>2, <3>1
    <3> QED
      BY <2>1, <3>1
  <2> HIDE DEF u, w, d, m
  <2>3. u \div w \in Nat /\ u = w * (u \div w)
    BY <1>2, <2>2
  <2>4. (u \div w) * m \in Nat /\ d = w * ((u \div w) * m)
    BY <1>2, <1>3, <2>3
  <2>5. d % w = 0
    BY <1>2, <2>4
  <2> QED
    BY <1>1, <2>5 DEF IsDouble, d, w
<1>5. CASE u < w
  <2>1. d <= w * Accuracy
    BY <1>2, <1>5, NearestBelow
  <2>2. w * Accuracy * 1 <= d
    BY <1>2, <1>5 DEF Fits
  <2> HIDE DEF u, w, d, m
  <2>3. Accuracy \in Nat /\ d = w * Accuracy
    BY <1>1, <1>2, <2>1, <2>2, DoublesAssumption
  <2>4. d % w = 0
    BY <1>2, <2>3
  <2> QED
    BY <1>1, <2>4 DEF IsDouble, d, w
<1> QED
  BY <1>2, <1>4, <1>5

----------------------------------------------------------------------------
(* A few roundings, with c units in the last place of which each is half. *)

\* A common factor can be dropped.
LEMMA Cancel ==
    ASSUME NEW c \in Nat \ {0}, NEW x \in Int, NEW y \in Int, c * x <= c * y
    PROVE  x <= y
<1> SUFFICES ASSUME x >= y + 1 PROVE FALSE
  OBVIOUS
<1>1. c * x >= c * (y + 1) /\ c * (y + 1) = c * y + c /\ c * y \in Int
  OBVIOUS
<1> QED
  BY <1>1

\* Three roundings up: of a part, of a product, of a sum.
LEMMA RoundedUp ==
    ASSUME NEW c \in Nat, c >= 8, NEW s \in Nat, NEW p \in Nat, NEW e \in Nat,
           c * p <= (c + 1) * s, c * (c * e) <= (c + 1) * ((c + 1) * p)
    PROVE  c * e <= (c + 4) * s
<1>1. (c + 1) * ((c + 1) * (c * p)) <= (c + 1) * ((c + 1) * ((c + 1) * s))
  <2>1. (c + 1) * (c * p) <= (c + 1) * ((c + 1) * s)
    OBVIOUS
  <2> QED
    BY <2>1
<1>2. c * (c * (c * e)) <= c * ((c + 1) * ((c + 1) * p))
  OBVIOUS
<1>3. c * ((c + 1) * ((c + 1) * p)) = (c + 1) * ((c + 1) * (c * p))
  OBVIOUS
<1>4. (c + 1) * ((c + 1) * ((c + 1) * s)) <= c * (c * ((c + 4) * s))
  <2>1. (c + 1) * ((c + 1) * ((c + 1) * s)) = (c * c * c + 3 * (c * c) + 3 * c + 1) * s
    OBVIOUS
  <2>2. c * (c * ((c + 4) * s)) = (c * c * c + 4 * (c * c)) * s
    OBVIOUS
  <2>3. c * c >= 8 * c
    OBVIOUS
  <2>4. c * c * c + 3 * (c * c) + 3 * c + 1 <= c * c * c + 4 * (c * c)
    BY <2>3
  <2> QED
    BY <2>1, <2>2, <2>4
<1>5. c * (c * (c * e)) <= c * (c * ((c + 4) * s))
  BY <1>1, <1>2, <1>3, <1>4
<1>6. c * (c * e) <= c * ((c + 4) * s)
  BY <1>5, Cancel
<1> QED
  BY <1>6, Cancel

\* Three roundings down.
LEMMA RoundedDown ==
    ASSUME NEW c \in Nat, c >= 8, NEW s \in Nat, NEW p \in Nat, NEW e \in Nat,
           (c - 1) * s <= c * p, (c - 1) * ((c - 1) * p) <= c * (c * e)
    PROVE  (c - 3) * s <= c * e
<1> DEFINE b == c - 1
<1>1. b \in Nat /\ c = b + 1
  OBVIOUS
<1>2. b * s <= c * p /\ b * (b * p) <= c * (c * e)
  OBVIOUS
<1> HIDE DEF b
<1>3. b * (b * (b * s)) <= b * (b * (c * p))
  <2>1. b * (b * s) <= b * (c * p)
    BY <1>1, <1>2
  <2> QED
    BY <1>1, <2>1
<1>4. b * (b * (c * p)) = c * (b * (b * p))
  BY <1>1
<1>5. c * (b * (b * p)) <= c * (c * (c * e))
  BY <1>1, <1>2
<1>6. c * (c * ((c - 3) * s)) <= b * (b * (b * s))
  <2>1. b * (b * (b * s)) = (c * c * c - 3 * (c * c) + 3 * c - 1) * s
    BY <1>1
  <2>2. c * (c * ((c - 3) * s)) = (c * c * c - 3 * (c * c)) * s
    OBVIOUS
  <2>3. c * c * c - 3 * (c * c) <= c * c * c - 3 * (c * c) + 3 * c - 1
    OBVIOUS
  <2> QED
    BY <2>1, <2>2, <2>3
<1>7. c * (c * ((c - 3) * s)) <= c * (c * (c * e))
  BY <1>1, <1>3, <1>4, <1>5, <1>6
<1>8. c * ((c - 3) * s) <= c * (c * e)
  BY <1>7, Cancel
<1> QED
  BY <1>8, Cancel

\* A product that was rounded down and a sum that was rounded up.
LEMMA RoundedApart ==
    ASSUME NEW c \in Nat, c >= 8, NEW s \in Nat, NEW p \in Nat, NEW e \in Nat, NEW b \in Nat,
           c * p <= (c + 1) * s, c * (c * e) <= (c + 1) * ((c + 1) * p), (c - 1) * p <= c * b
    PROVE  c * e <= c * b + 4 * s
<1>1. c * (c * e) <= c * (c * b) + (3 * c + 1) * p
  <2>1. c * ((c - 1) * p) <= c * (c * b)
    OBVIOUS
  <2>2. (c + 1) * ((c + 1) * p) = c * ((c - 1) * p) + (3 * c + 1) * p
    OBVIOUS
  <2> QED
    BY <2>1, <2>2
<1>2. c * (c * (c * e)) <= c * (c * (c * b)) + (3 * c + 1) * (c * p)
  <2>1. c * (c * (c * e)) <= c * (c * (c * b) + (3 * c + 1) * p)
    BY <1>1
  <2>2. c * (c * (c * b) + (3 * c + 1) * p) = c * (c * (c * b)) + (3 * c + 1) * (c * p)
    OBVIOUS
  <2> QED
    BY <2>1, <2>2
<1>3. (3 * c + 1) * (c * p) <= (3 * c + 1) * ((c + 1) * s)
  OBVIOUS
<1>4. (3 * c + 1) * ((c + 1) * s) <= c * (c * (4 * s))
  <2>1. (3 * c + 1) * ((c + 1) * s) = (3 * (c * c) + 4 * c + 1) * s
    OBVIOUS
  <2>2. c * (c * (4 * s)) = (4 * (c * c)) * s
    OBVIOUS
  <2>3. c * c >= 8 * c
    OBVIOUS
  <2>4. 3 * (c * c) + 4 * c + 1 <= 4 * (c * c)
    BY <2>3
  <2> QED
    BY <2>1, <2>2, <2>4
<1>5. c * (c * (c * e)) <= c * (c * (c * b + 4 * s))
  <2>1. c * (c * (c * b + 4 * s)) = c * (c * (c * b)) + c * (c * (4 * s))
    OBVIOUS
  <2> QED
    BY <1>2, <1>3, <1>4, <2>1
<1>6. c * (c * e) <= c * (c * b + 4 * s)
  BY <1>5, Cancel
<1> QED
  BY <1>6, Cancel

\* Two units in the last place are not beyond the tolerance.
LEMMA WithinTolerance ==
    ASSUME NEW x \in Nat, 2 * Accuracy * x <= 4 * Scale
    PROVE  x <= Tolerance
<1>1. /\ Accuracy \in Nat \ {0} /\ Scale \in Nat
  BY DoublesAssumption
<1>2. /\ Tolerance \in Nat
      /\ 2 * Scale < Accuracy * Tolerance + Accuracy
  BY <1>1 DEF Tolerance
<1>3. Accuracy * x <= 2 * Scale
  BY <1>1
<1>4. x >= Tolerance + 1 => Accuracy * x >= Accuracy * (Tolerance + 1)
  BY <1>1, <1>2
<1>5. Accuracy * (Tolerance + 1) = Accuracy * Tolerance + Accuracy
  BY <1>1, <1>2
<1> QED
  BY <1>1, <1>2, <1>3, <1>4, <1>5

----------------------------------------------------------------------------
(* Shares and parts. *)

\* Nothing is nothing.
LEMMA NearestZero == \A y \in Nat \ {0} : Nearest(0, y) = 0
<1> SUFFICES ASSUME NEW y \in Nat \ {0} PROVE Nearest(0, y) = 0
  OBVIOUS
<1>1. Spacing(0, 1) \in Nat \ {0}
  BY SpacingFits
<1>2. 0 % Spacing(0, 1) = 0
  BY <1>1
<1>3. IsDouble(0)
  BY <1>2 DEF IsDouble
<1>4. Nearest(0 * y, y) = 0
  BY <1>3, NearestExact
<1> QED
  BY <1>4

\* Where the part k ends, and where the progress is when k parts are over.
EndOf(k) == Sum(Begin(k), perPart)

\* A share is a double between nothing and the whole part, and grows with what is done.
LEMMA ShareBounds ==
    ASSUME perPart \in Nat, IsDouble(perPart),
           NEW c \in Nat, NEW d \in Nat, c <= d, NEW t \in Nat \ {0}
    PROVE  /\ Share(c, t) \in Nat
           /\ Share(c, t) <= Share(d, t)
           /\ Share(d, t) <= perPart
           /\ d >= t => Share(d, t) = perPart
           /\ c = 0 => Share(c, t) = 0
<1> DEFINE l(n) == Lesser(Quotient(n, t), Scale)
<1>1. Scale \in Nat \ {0} /\ IsDouble(Scale)
  BY DoublesAssumption
<1>2. ASSUME NEW n \in Nat
      PROVE  Quotient(n, t) \in Nat /\ l(n) \in 0..Scale
  <2>1. n * Scale \in Nat
    BY <1>1
  <2>2. Quotient(n, t) \in Nat
    BY <2>1, NearestNear DEF Quotient
  <2> QED
    BY <1>1, <2>2 DEF Lesser
<1>3. l(c) <= l(d)
  <2>1. c * Scale \in Nat /\ d * Scale \in Nat /\ c * Scale <= d * Scale
    BY <1>1
  <2>2. Quotient(c, t) <= Quotient(d, t)
    BY <2>1, NearestGrows DEF Quotient
  <2>3. Quotient(c, t) \in Nat /\ Quotient(d, t) \in Nat
    BY <1>2
  <2> QED
    BY <1>1, <2>2, <2>3 DEF Lesser
<1>4. d >= t => l(d) = Scale
  <2> SUFFICES ASSUME d >= t PROVE l(d) = Scale
    OBVIOUS
  <2>1. Scale * t \in Nat /\ d * Scale \in Nat /\ Scale * t <= d * Scale
    BY <1>1
  <2>2. Nearest(Scale * t, t) <= Quotient(d, t)
    BY <2>1, NearestGrows DEF Quotient
  <2>3. Nearest(Scale * t, t) = Scale
    BY <1>1, NearestExact
  <2>4. Quotient(d, t) \in Nat
    BY <1>2
  <2> QED
    BY <1>1, <2>2, <2>3, <2>4 DEF Lesser
<1>5. c = 0 => l(c) = 0
  <2>1. 0 * Scale = 0
    BY <1>1
  <2>2. Quotient(0, t) = 0
    BY <2>1, NearestZero DEF Quotient
  <2> QED
    BY <1>1, <2>2 DEF Lesser
<1>6. l(c) \in 0..Scale /\ l(d) \in 0..Scale
  BY <1>2
<1>7. Share(c, t) = Nearest(perPart * l(c), Scale) /\ Share(d, t) = Nearest(perPart * l(d), Scale)
  BY DEF Share, Product
<1> HIDE DEF l
<1>8. /\ perPart * l(c) \in Nat /\ perPart * l(d) \in Nat /\ perPart * Scale \in Nat
      /\ perPart * l(c) <= perPart * l(d) /\ perPart * l(d) <= perPart * Scale
  BY <1>1, <1>3, <1>6
<1>9. Share(c, t) \in Nat /\ Share(c, t) <= Share(d, t)
  BY <1>1, <1>7, <1>8, NearestNear, NearestGrows
<1>10. Nearest(perPart * Scale, Scale) = perPart
  BY <1>1, NearestExact
<1>11. Share(d, t) <= perPart
  BY <1>1, <1>7, <1>8, <1>10, NearestGrows
<1>12. d >= t => Share(d, t) = perPart
  BY <1>4, <1>7, <1>10
<1>13. c = 0 => Share(c, t) = 0
  <2>1. perPart * 0 = 0
    OBVIOUS
  <2> QED
    BY <1>1, <1>5, <1>7, <2>1, NearestZero
<1> QED
  BY <1>9, <1>11, <1>12, <1>13

\* The beginnings of the parts ascend from 0.
LEMMA Beginnings ==
    ASSUME perPart \in Nat, NEW k \in Nat \ {0}, NEW m \in Nat \ {0}, k <= m
    PROVE  /\ Begin(k) \in Nat /\ IsDouble(Begin(k))
           /\ Begin(k) <= Begin(m)
           /\ Begin(1) = 0
<1>1. Begin(k) = Nearest(perPart * (k - 1), 1) /\ Begin(m) = Nearest(perPart * (m - 1), 1)
  BY DEF Begin, Times
<1>2. /\ perPart * (k - 1) \in Nat /\ perPart * (m - 1) \in Nat
      /\ perPart * (k - 1) <= perPart * (m - 1)
  OBVIOUS
<1>3. perPart * (1 - 1) = 0
  OBVIOUS
<1>4. Begin(1) = 0
  BY <1>3, NearestZero DEF Begin, Times
<1>5. 1 \in Nat \ {0}
  OBVIOUS
<1>6. Begin(k) \in Nat /\ IsDouble(Begin(k))
  BY <1>1, <1>2, <1>5, NearestIsDouble, Zenon
<1>7. Begin(k) <= Begin(m)
  BY <1>1, <1>2, <1>5, NearestGrows, Zenon
<1> QED
  BY <1>4, <1>6, <1>7

\* An update leaves the progress between the begin of its part and the end, and the
\* more is done the farther.
LEMMA Updates ==
    ASSUME perPart \in Nat, IsDouble(perPart), NEW k \in Nat \ {0},
           NEW c \in Nat, NEW d \in Nat, c <= d, NEW t \in Nat
    PROVE  /\ UpdatedProgress(k, c, t) \in Nat
           /\ Begin(k) <= UpdatedProgress(k, c, t)
           /\ UpdatedProgress(k, c, t) <= UpdatedProgress(k, d, t)
           /\ UpdatedProgress(k, d, t) <= EndOf(k)
           /\ d >= t /\ t > 0 => UpdatedProgress(k, d, t) = EndOf(k)
           /\ c = 0 => UpdatedProgress(k, c, t) = Begin(k)
<1> DEFINE b == Begin(k)
<1>1. b \in Nat /\ IsDouble(b)
  BY Beginnings
<1>2. ASSUME NEW x \in Nat, NEW y \in Nat, x <= y
      PROVE  Sum(b, x) \in Nat /\ Sum(b, x) <= Sum(b, y)
  <2> DEFINE v == b + x
             w == b + y
  <2>1. b \in Nat
    BY <1>1
  <2>2. v \in Nat /\ w \in Nat /\ v <= w /\ 1 \in Nat \ {0}
    BY ONLY <2>1, x \in Nat, y \in Nat, x <= y
  <2>3. Sum(b, x) = Nearest(v, 1) /\ Sum(b, y) = Nearest(w, 1)
    BY DEF Sum
  <2> HIDE DEF v, w
  <2> QED
    BY <2>2, <2>3, NearestNear, NearestGrows, Zenon
<1>3. Sum(b, 0) = b
  <2>1. b + 0 = b * 1
    BY <1>1
  <2> QED
    BY <1>1, <2>1, NearestExact DEF Sum
<1>4. EndOf(k) = Sum(b, perPart) /\ b <= EndOf(k)
  BY <1>2, <1>3 DEF EndOf
<1>5. CASE t = 0
  <2>1. UpdatedProgress(k, c, t) = b /\ UpdatedProgress(k, d, t) = b
    BY <1>5 DEF UpdatedProgress
  <2> QED
    BY <1>1, <1>4, <1>5, <2>1
<1>6. CASE t > 0
  <2>1. /\ UpdatedProgress(k, c, t) = Sum(b, Share(c, t))
        /\ UpdatedProgress(k, d, t) = Sum(b, Share(d, t))
    BY <1>6 DEF UpdatedProgress
  <2>2. /\ Share(c, t) \in Nat /\ Share(d, t) \in Nat
        /\ Share(c, t) <= Share(d, t) /\ Share(d, t) <= perPart
        /\ d >= t => Share(d, t) = perPart
        /\ c = 0 => Share(c, t) = 0
    <3>1. t \in Nat \ {0}
      BY <1>6
    <3> QED
      BY <3>1, ShareBounds
  <2> HIDE DEF b
  <2>3. Sum(b, Share(c, t)) \in Nat /\ Sum(b, Share(c, t)) <= Sum(b, Share(d, t))
    BY <1>2, <2>2
  <2>4. Sum(b, Share(d, t)) <= Sum(b, perPart)
    BY <1>2, <2>2
  <2>5. b <= Sum(b, Share(c, t))
    <3>1. 0 <= Share(c, t)
      BY <2>2
    <3> QED
      BY <1>2, <1>3, <2>2, <3>1
  <2>6. c = 0 => Sum(b, Share(c, t)) = b
    BY <1>3, <2>2
  <2> QED
    BY <1>4, <2>1, <2>2, <2>3, <2>4, <2>5, <2>6 DEF b
<1> QED
  BY <1>5, <1>6

\* 1 / n is close to a part of n.
LEMMA PerPartAccurate ==
    ASSUME NEW n \in Counts
    PROVE  /\ PerPart(n) \in 0..Scale /\ IsDouble(PerPart(n)) /\ PerPart(1) = Scale
           /\ 2 * Accuracy * (PerPart(n) * n) <= (2 * Accuracy + 1) * Scale
           /\ (2 * Accuracy - 1) * Scale <= 2 * Accuracy * (PerPart(n) * n)
<1>1. Scale \in Nat \ {0} /\ IsDouble(Scale)
  BY DoublesAssumption
<1>2. n \in Nat \ {0} /\ Accuracy * n <= Scale
  BY ProgressAssumption
<1>3. ASSUME NEW m \in Nat \ {0} PROVE PerPart(m) = Nearest(Scale, m)
  <2>1. 1 * Scale = Scale
    BY <1>1
  <2> QED
    BY <2>1 DEF PerPart, Quotient
<1>4. PerPart(n) \in Nat /\ IsDouble(PerPart(n))
  BY <1>1, <1>2, <1>3, NearestIsDouble
<1>5. PerPart(n) <= Scale
  <2>1. Scale * n \in Nat /\ Scale <= Scale * n
    BY <1>1, <1>2
  <2>2. Nearest(Scale, n) <= Nearest(Scale * n, n)
    BY <1>1, <1>2, <2>1, NearestGrows
  <2> QED
    BY <1>1, <1>2, <1>3, <2>2, NearestExact
<1>6. PerPart(1) = Scale
  <2>1. Scale * 1 = Scale
    BY <1>1
  <2> QED
    BY <1>1, <1>3, <2>1, NearestExact
<1> QED
  BY <1>1, <1>2, <1>3, <1>4, <1>5, <1>6, NearestAccurate

\* Where parts begin and end, up to a rounding or two.
LEMMA PlacesAccurate ==
    ASSUME perPart \in Nat, NEW k \in Nat \ {0}
    PROVE  LET c == 2 * Accuracy IN
           /\ Begin(k + 1) \in Nat /\ (c - 1) * (perPart * k) <= c * Begin(k + 1)
           /\ EndOf(k) \in Nat
           /\ c * (c * EndOf(k)) <= (c + 1) * ((c + 1) * (perPart * k))
           /\ (c - 1) * ((c - 1) * (perPart * k)) <= c * (c * EndOf(k))
<1> DEFINE c == 2 * Accuracy
           p == perPart
           a == Begin(k)
           e == EndOf(k)
<1>1. c \in Nat /\ c >= 8
  BY DoublesAssumption
<1>2. ASSUME NEW m \in Nat \ {0}
      PROVE  /\ Begin(m) \in Nat
             /\ c * Begin(m) <= (c + 1) * (p * (m - 1))
             /\ (c - 1) * (p * (m - 1)) <= c * Begin(m)
  <2>1. p * (m - 1) \in Nat /\ 1 \in Nat \ {0}
    OBVIOUS
  <2>2. Begin(m) = Nearest(p * (m - 1), 1)
    BY DEF Begin, Times
  <2>3. Nearest(p * (m - 1), 1) \in Nat
    BY <2>1, NearestNear, Zenon
  <2>4. /\ c * (Nearest(p * (m - 1), 1) * 1) <= (c + 1) * (p * (m - 1))
        /\ (c - 1) * (p * (m - 1)) <= c * (Nearest(p * (m - 1), 1) * 1)
    BY <2>1, NearestAccurate
  <2> QED
    BY <2>2, <2>3, <2>4
<1>3. a \in Nat /\ c * a <= (c + 1) * (p * (k - 1)) /\ (c - 1) * (p * (k - 1)) <= c * a
  BY <1>2
<1>4. Begin(k + 1) \in Nat /\ (c - 1) * (p * k) <= c * Begin(k + 1)
  <2>1. k + 1 \in Nat \ {0} /\ (k + 1) - 1 = k
    OBVIOUS
  <2> QED
    BY <1>2, <2>1
<1>5. e \in Nat /\ c * e <= (c + 1) * (a + p) /\ (c - 1) * (a + p) <= c * e
  <2>1. a + p \in Nat /\ 1 \in Nat \ {0}
    BY <1>3
  <2>2. e = Nearest(a + p, 1)
    BY DEF EndOf, Sum
  <2>3. Nearest(a + p, 1) \in Nat
    BY <2>1, NearestNear, Zenon
  <2>4. /\ c * (Nearest(a + p, 1) * 1) <= (c + 1) * (a + p)
        /\ (c - 1) * (a + p) <= c * (Nearest(a + p, 1) * 1)
    BY <2>1, NearestAccurate
  <2> QED
    BY <2>2, <2>3, <2>4
<1>6. p \in Nat
  OBVIOUS
<1> HIDE DEF c, p, a, e
<1>7. c * (c * e) <= (c + 1) * ((c + 1) * (p * k))
  <2>1. c * (c * e) <= c * ((c + 1) * (a + p))
    BY <1>1, <1>3, <1>5, <1>6
  <2>2. c * ((c + 1) * (a + p)) = (c + 1) * (c * a + c * p)
    BY <1>1, <1>3, <1>6
  <2>3. c * a + c * p <= (c + 1) * (p * k)
    <3>1. (c + 1) * (p * k) = (c + 1) * (p * (k - 1)) + (c + 1) * p
      BY <1>1, <1>6
    <3>2. c * p <= (c + 1) * p
      BY <1>1, <1>6
    <3>3. c * a \in Nat /\ c * p \in Nat /\ (c + 1) * (p * (k - 1)) \in Nat /\ (c + 1) * p \in Nat
      BY <1>1, <1>3, <1>6
    <3> QED
      BY <1>3, <3>1, <3>2, <3>3
  <2>4. (c + 1) * (c * a + c * p) <= (c + 1) * ((c + 1) * (p * k))
    BY <1>1, <1>3, <1>6, <2>3
  <2> QED
    BY <1>1, <1>3, <1>5, <1>6, <2>1, <2>2, <2>4
<1>8. (c - 1) * ((c - 1) * (p * k)) <= c * (c * e)
  <2>1. c * ((c - 1) * (a + p)) <= c * (c * e)
    BY <1>1, <1>3, <1>5, <1>6
  <2>2. c * ((c - 1) * (a + p)) = (c - 1) * (c * a + c * p)
    BY <1>1, <1>3, <1>6
  <2>3. (c - 1) * (p * k) <= c * a + c * p
    <3>1. (c - 1) * (p * k) = (c - 1) * (p * (k - 1)) + (c - 1) * p
      BY <1>1, <1>6
    <3>2. (c - 1) * p <= c * p
      BY <1>1, <1>6
    <3>3. c * a \in Nat /\ c * p \in Nat /\ (c - 1) * (p * (k - 1)) \in Nat /\ (c - 1) * p \in Nat
      BY <1>1, <1>3, <1>6
    <3> QED
      BY <1>3, <3>1, <3>2, <3>3
  <2>4. (c - 1) * ((c - 1) * (p * k)) <= (c - 1) * (c * a + c * p)
    BY <1>1, <1>3, <1>6, <2>3
  <2> QED
    BY <1>1, <1>3, <1>5, <1>6, <2>1, <2>2, <2>4
<1> QED
  BY <1>4, <1>5, <1>7, <1>8 DEF c, p, e

\* No part ends beyond 1.0, the last ends there, and each begins where the one
\* before ended, all up to the tolerance.
LEMMA PartsInPlace ==
    ASSUME NEW n \in Counts, perPart = PerPart(n), NEW k \in 1..n
    PROVE  /\ EndOf(k) \in Nat /\ EndOf(k) <= Scale + Tolerance
           /\ Scale <= EndOf(n) + Tolerance
           /\ Begin(k + 1) \in Nat /\ EndOf(k) - Begin(k + 1) <= Tolerance
<1> DEFINE c == 2 * Accuracy
           p == perPart
           e(m) == EndOf(m)
           b == Begin(k + 1)
<1>1. c \in Nat /\ c >= 8 /\ Scale \in Nat
  BY DoublesAssumption
<1>2. n \in Nat \ {0} /\ k \in Nat \ {0} /\ k <= n
  BY ProgressAssumption
<1>3. p \in Nat /\ c * (p * n) <= (c + 1) * Scale /\ (c - 1) * Scale <= c * (p * n)
  BY PerPartAccurate
<1>4. /\ b \in Nat /\ (c - 1) * (p * k) <= c * b
      /\ e(k) \in Nat /\ c * (c * e(k)) <= (c + 1) * ((c + 1) * (p * k))
      /\ e(n) \in Nat /\ (c - 1) * ((c - 1) * (p * n)) <= c * (c * e(n))
  BY <1>2, <1>3, PlacesAccurate
<1> HIDE DEF c, p, e, b
<1>5. p * k \in Nat /\ p * n \in Nat /\ c * (p * k) <= (c + 1) * Scale
  <2>1. p * k \in Nat /\ p * n \in Nat /\ p * k <= p * n
    BY <1>2, <1>3
  <2>2. c * (p * k) <= c * (p * n)
    BY <1>1, <2>1
  <2> QED
    BY <1>1, <1>3, <2>1, <2>2
<1>6. c * e(k) <= (c + 4) * Scale
  BY <1>1, <1>4, <1>5, RoundedUp
<1>7. (c - 3) * Scale <= c * e(n)
  BY <1>1, <1>3, <1>4, <1>5, RoundedDown
<1>8. c * e(k) <= c * b + 4 * Scale
  BY <1>1, <1>4, <1>5, RoundedApart
<1>9. ASSUME NEW x \in Nat, NEW y \in Nat, c * x <= c * y + 4 * Scale
      PROVE  x - y <= Tolerance
  <2>1. CASE x <= y
    <3>1. Tolerance \in Nat
      BY DoublesAssumption DEF Tolerance
    <3> QED
      BY <2>1, <3>1
  <2>2. CASE x > y
    <3>1. x - y \in Nat /\ c * (x - y) <= 4 * Scale
      BY <1>1, <1>9, <2>2
    <3> QED
      BY <3>1, WithinTolerance DEF c
  <2> QED
    BY <2>1, <2>2
<1>10. e(k) - Scale <= Tolerance
  <2>1. (c + 4) * Scale = c * Scale + 4 * Scale
    BY <1>1
  <2> QED
    BY <1>1, <1>4, <1>6, <1>9, <2>1
<1>11. Scale - e(n) <= Tolerance
  <2>1. (c - 3) * Scale = c * Scale - 3 * Scale
    BY <1>1
  <2>2. c * Scale <= c * e(n) + 4 * Scale
    BY <1>1, <1>4, <1>7, <2>1
  <2> QED
    BY <1>1, <1>4, <1>9, <2>2
<1>12. e(k) - b <= Tolerance
  BY <1>4, <1>8, <1>9
<1>13. Tolerance \in Nat
  BY DoublesAssumption DEF Tolerance
<1>14. e(k) <= Scale + Tolerance /\ Scale <= e(n) + Tolerance
  BY <1>1, <1>4, <1>10, <1>11, <1>13
<1> QED
  BY <1>4, <1>12, <1>14 DEF e, b

\* An encoder has one part per operation: the first ends at 1.0, and one that
\* completes nothing stays where it began.
LEMMA WholeParts ==
    ASSUME perPart = Scale, NEW k \in Nat \ {0}, NEW c \in Nat, NEW t \in Nat,
           k = 1 \/ c = 0
    PROVE  /\ UpdatedProgress(k, c, t) <= Begin(k + 1)
           /\ k <= 2 => UpdatedProgress(k, c, t) <= Scale
<1>1. perPart \in Nat /\ IsDouble(perPart) /\ Scale \in Nat
  BY DoublesAssumption
<1>2. Nearest(Scale, 1) = Scale
  <2>1. Scale * 1 = Scale /\ 1 \in Nat \ {0}
    BY <1>1
  <2>2. Nearest(Scale * 1, 1) = Scale
    BY <2>1, DoublesAssumption, NearestExact
  <2> QED
    BY <2>1, <2>2
<1>3. Begin(2) = Scale
  <2>1. perPart * (2 - 1) = Scale
    BY <1>1
  <2> QED
    BY <1>2, <2>1 DEF Begin, Times
<1>4. /\ UpdatedProgress(k, c, t) \in Nat /\ UpdatedProgress(k, c, t) <= EndOf(k)
      /\ c = 0 => UpdatedProgress(k, c, t) = Begin(k)
  <2>1. c <= c
    OBVIOUS
  <2>2. UpdatedProgress(k, c, t) \in Nat
    BY <1>1, <2>1, Updates, Zenon
  <2>3. UpdatedProgress(k, c, t) <= EndOf(k)
    BY <1>1, <2>1, Updates, Zenon
  <2>4. c = 0 => UpdatedProgress(k, c, t) = Begin(k)
    BY <1>1, <2>1, Updates, Zenon
  <2> QED
    BY <2>2, <2>3, <2>4
<1>5. CASE k = 1
  <2>1. Begin(1) = 0
    BY <1>1, Beginnings
  <2>2. 0 + perPart = Scale
    BY <1>1
  <2>3. EndOf(1) = Scale
    BY <1>2, <2>1, <2>2 DEF EndOf, Sum
  <2>4. k + 1 = 2
    BY <1>5
  <2> QED
    BY <1>3, <1>4, <1>5, <2>3, <2>4
<1>6. CASE c = 0
  <2>1. k + 1 \in Nat \ {0} /\ k <= k + 1
    OBVIOUS
  <2>2. Begin(k) <= Begin(k + 1)
    BY <1>1, <2>1, Beginnings
  <2>3. k <= 2 => Begin(k) <= Begin(2)
    BY <1>1, Beginnings
  <2> QED
    BY <1>3, <1>4, <1>6, <2>2, <2>3
<1> QED
  BY <1>5, <1>6

\* From the third on its parts begin at 2.0 or more.
LEMMA BeyondRange ==
    ASSUME perPart = Scale, NEW k \in Nat, k > 2
    PROVE  Begin(k) \in Nat /\ Begin(k) > Scale + Tolerance
<1> DEFINE b == Begin(3)
           a == Accuracy
           s == Scale
<1>1. perPart \in Nat /\ s \in Nat \ {0} /\ a \in Nat /\ a > 4
  BY DoublesAssumption
<1>2. (2 * a - 1) * (2 * s) <= 2 * a * b
  <2>1. perPart * 2 = 2 * s /\ 2 + 1 = 3 /\ 2 \in Nat \ {0}
    BY <1>1
  <2>2. (2 * a - 1) * (perPart * 2) <= 2 * a * Begin(2 + 1)
    BY <1>1, <2>1, PlacesAccurate
  <2> QED
    BY <2>1, <2>2
<1>3. b \in Nat /\ Begin(k) \in Nat /\ b <= Begin(k)
  <2>1. 3 \in Nat \ {0} /\ k \in Nat \ {0} /\ 3 <= k /\ k <= k
    OBVIOUS
  <2> QED
    BY <1>1, <2>1, Beginnings
<1>4. Tolerance \in Nat /\ a * Tolerance <= 2 * s
  BY <1>1 DEF Tolerance
<1> HIDE DEF a, s, b
<1>5. a * (s + Tolerance) < a * b
  <2>1. a * (s + Tolerance) <= a * s + 2 * s
    BY <1>1, <1>4
  <2>2. (2 * a - 1) * (2 * s) = 2 * (2 * (a * s) - s)
    BY <1>1
  <2>3. 2 * a * b = 2 * (a * b) /\ a * b \in Nat /\ a * s \in Nat
    BY <1>1, <1>3
  <2>4. 2 * (a * s) - s <= a * b
    BY <1>1, <1>2, <2>2, <2>3
  <2>5. a * s >= 4 * s
    BY <1>1
  <2> QED
    BY <1>1, <1>4, <2>1, <2>3, <2>4, <2>5
<1>6. b > s + Tolerance
  <2>1. b <= s + Tolerance => a * b <= a * (s + Tolerance)
    BY <1>1, <1>3, <1>4
  <2>2. a * b \in Nat /\ a * (s + Tolerance) \in Nat
    BY <1>1, <1>3, <1>4
  <2> QED
    BY <1>1, <1>3, <1>4, <1>5, <2>1, <2>2
<1> QED
  BY <1>1, <1>3, <1>4, <1>6 DEF s

----------------------------------------------------------------------------
\* How far the parts have come: where their number is ahead of what was announced,
\* the encoder has been used that often.
PartsInv ==
    /\ IsDouble(perPart)
    /\ kind = "decoder" => /\ partNumber <= partsCount
                           /\ phase = "between" => partNumber < partsCount
    /\ kind = "encoder" => /\ partsCount = 1
                           /\ partNumber > 0 => perPart = Scale
                           /\ partNumber <= operations
                           /\ phase = "between" => partNumber < operations
                           /\ phase \notin {"called", "reset", "finished"}
    /\ phase \in {"called", "reset"} => partNumber = 0 /\ progress = 0
    /\ phase \in {"started", "running", "finished"} => partNumber > 0
    /\ phase \in {"between", "started", "running", "finished"} => perPart = PerPart(partsCount)

\* What the progress has reached at most when k parts were begun.
Reached(k) ==
    IF kind = "encoder" THEN Begin(k + 1) ELSE IF k = 0 THEN 0 ELSE EndOf(k)

\* How far the progress is in the part at hand.  An encoder that is used again
\* never completes anything.
PartInv ==
    /\ progress <= Reached(partNumber)
    /\ phase = "started" => partCompleted = 0 /\ progress <= Reached(partNumber - 1)
    /\ phase = "running" =>
          progress = UpdatedProgress(partNumber, partCompleted, partTotal)
    /\ kind = "encoder" /\ operations > 1 /\ phase \in {"started", "running"} =>
          partCompleted = 0

IInv == TypeOK /\ PartsInv /\ PartInv

\* The range of what is reported, and of what may be reported next.
RangeInv ==
    kind = "decoder" \/ operations <= 2 =>
        /\ InRange(progress)
        /\ \A t \in Threads : ~Idle(t) => InRange(report[t].progress)

\* The constants in short.
LEMMA Constants ==
    /\ Scale \in Nat \ {0} /\ Tolerance \in Nat
    /\ Counts \subseteq Nat \ {0} /\ 1 \in Counts
    /\ Totals \subseteq Nat /\ Amounts \subseteq Nat /\ 0 \in Totals /\ 0 \in Amounts
<1>1. Scale \in Nat \ {0} /\ Accuracy \in Nat \ {0}
  BY DoublesAssumption
<1>2. Tolerance \in Nat
  BY <1>1 DEF Tolerance
<1> QED
  BY <1>1, <1>2, ProgressAssumption

\* The more parts were begun the more may have been reached.
LEMMA ReachedGrows ==
    ASSUME perPart \in Nat, IsDouble(perPart), NEW k \in Nat
    PROVE  Reached(k) \in Nat /\ Reached(k) <= Reached(k + 1)
<1>1. ASSUME NEW m \in Nat \ {0}
      PROVE  /\ Begin(m) \in Nat /\ Begin(m) <= Begin(m + 1) /\ Begin(m + 1) \in Nat
             /\ EndOf(m) \in Nat
  <2>1. m + 1 \in Nat \ {0} /\ m <= m + 1 /\ m <= m
    OBVIOUS
  <2>2. Begin(m) \in Nat /\ Begin(m) <= Begin(m + 1) /\ Begin(m + 1) \in Nat
    BY <2>1, Beginnings
  <2>3. EndOf(m) \in Nat
    BY PlacesAccurate
  <2> QED
    BY <2>2, <2>3
<1>2. CASE kind = "encoder"
  <2>1. k + 1 \in Nat \ {0}
    OBVIOUS
  <2> QED
    BY <1>1, <1>2, <2>1 DEF Reached
<1>3. CASE kind # "encoder" /\ k = 0
  <2>1. EndOf(1) \in Nat /\ k + 1 = 1
    BY <1>1, <1>3
  <2> QED
    BY <1>3, <2>1 DEF Reached
<1>4. CASE kind # "encoder" /\ k # 0
  <2> DEFINE v == Begin(k) + perPart
             w == Begin(k + 1) + perPart
  <2>1. Begin(k) \in Nat /\ Begin(k + 1) \in Nat /\ Begin(k) <= Begin(k + 1)
    BY <1>1, <1>4
  <2>2. v \in Nat /\ w \in Nat /\ v <= w /\ 1 \in Nat \ {0}
    BY ONLY <2>1, perPart \in Nat
  <2>3. EndOf(k) = Nearest(v, 1) /\ EndOf(k + 1) = Nearest(w, 1)
    BY DEF EndOf, Sum
  <2>4. EndOf(k) \in Nat /\ k + 1 # 0
    BY <1>1, <1>4
  <2> HIDE DEF v, w
  <2>5. EndOf(k) <= EndOf(k + 1)
    BY <2>2, <2>3, NearestGrows, Zenon
  <2> QED
    BY <1>4, <2>4, <2>5 DEF Reached
<1> QED
  BY <1>2, <1>3, <1>4

\* What a method that updates the progress does: the new progress lies in the part
\* it is in, and a report has that progress.
LEMMA UpdateEffect ==
    ASSUME IInv, NEW n \in Nat \ {0}, NEW c \in Amounts \cup Totals, NEW m \in Totals,
           Update(n, c, m), kind = "encoder" => n = partNumber /\ (n = 1 \/ c = 0)
    PROVE  /\ progress' = UpdatedProgress(n, c, m)
           /\ progress' \in Nat
           /\ Begin(n) \in Nat /\ Begin(n) <= progress' /\ progress' <= Reached(n)
           /\ report' \in [Threads -> Report \cup {NoReport}]
           /\ informed' \subseteq Delegates
           /\ \A t \in Threads : \/ report'[t] = report[t]
                                 \/ report'[t] = NoReport
                                 \/ report'[t].progress = progress'
<1>1. perPart \in Nat /\ IsDouble(perPart) /\ c \in Nat /\ m \in Nat /\ c <= c /\ n <= n
  BY Constants DEF IInv, TypeOK, PartsInv
<1>2. progress' = UpdatedProgress(n, c, m)
  BY DEF Update
<1>3. /\ progress' \in Nat
      /\ Begin(n) <= progress' /\ progress' <= EndOf(n)
  <2>1. UpdatedProgress(n, c, m) \in Nat
    BY <1>1, Updates, Zenon
  <2>2. Begin(n) <= UpdatedProgress(n, c, m)
    BY <1>1, Updates, Zenon
  <2>3. UpdatedProgress(n, c, m) <= EndOf(n)
    BY <1>1, Updates, Zenon
  <2> QED
    BY <1>2, <2>1, <2>2, <2>3
<1>4. progress' <= Reached(n)
  <2>1. CASE kind = "encoder"
    <3>1. perPart = Scale
      BY <2>1 DEF IInv, PartsInv
    <3>2. UpdatedProgress(n, c, m) <= Begin(n + 1)
      BY <1>1, <2>1, <3>1, WholeParts
    <3> QED
      BY <1>2, <2>1, <3>2 DEF Reached
  <2>2. CASE kind # "encoder"
    BY <1>3, <2>2 DEF Reached
  <2> QED
    BY <2>1, <2>2
<1>5. Begin(n) \in Nat
  BY <1>1, Beginnings
<1>6. path' \in Paths \cup {NoPath}
  BY DEF Update, IInv, TypeOK
<1>7. Copy(delegate) \in Report \cup {NoReport}
  BY <1>3, <1>6 DEF Copy, Report, IInv, TypeOK
<1>8. report' \in [Threads -> Report \cup {NoReport}]
  BY <1>7 DEF Update, Reports, IInv, TypeOK
<1>9. informed' \subseteq Delegates
  BY DEF Update, Forget, IInv, TypeOK
<1>10. Copy(delegate) = NoReport \/ Copy(delegate).progress = progress'
  BY DEF Copy
<1>11. \A t \in Threads : \/ report'[t] = report[t]
                          \/ report'[t] = NoReport
                          \/ report'[t].progress = progress'
  BY <1>10 DEF Update, Reports, IInv, TypeOK
<1> QED
  BY <1>2, <1>3, <1>4, <1>5, <1>8, <1>9, <1>11

----------------------------------------------------------------------------
\* A new progress, which has reported nothing.
LEMMA InitInv == Init => IInv /\ RangeInv /\ NoNewsLost
<1> SUFFICES ASSUME Init PROVE IInv /\ RangeInv /\ NoNewsLost
  OBVIOUS
<1>1. Nearest(0, 1) = 0 /\ 0 * 0 = 0
  BY NearestZero
<1>2. IsDouble(0)
  BY <1>1, NearestIsDouble
<1>3. Times(0, 0) = 0
  BY <1>1 DEF Times
<1>4. TypeOK
  BY Constants DEF Init, TypeOK
<1>5. PartsInv
  BY <1>2, Constants DEF Init, PartsInv
<1>6. PartInv
  BY <1>3, Constants DEF Init, PartInv, Reached, Begin
<1>7. RangeInv /\ NoNewsLost
  BY Constants DEF Init, RangeInv, InRange, NoNewsLost, Idle
<1> QED
  BY <1>4, <1>5, <1>6, <1>7 DEF IInv

\* What is reached depends on the size of the parts alone.
LEMMA SameReached ==
    ASSUME perPart' = perPart, kind' = kind, partNumber' = partNumber, progress' = progress,
           progress <= Reached(partNumber)
    PROVE  (progress <= Reached(partNumber))'
BY DEF Reached, EndOf, Begin

\* Every method, and every delivery of a report, keeps the invariant.
LEMMA NextInv == IInv /\ [Next]_vars => IInv'
<1> SUFFICES ASSUME IInv, [Next]_vars PROVE IInv'
  OBVIOUS
<1> USE Constants DEF IInv, TypeOK, PartsInv, PartInv,
      At, Goto, operation, parts, part, told
<1>1. CASE Reset
  <2>1. Nearest(0, 1) = 0 /\ IsDouble(0)
    BY NearestZero, NearestIsDouble
  <2> QED
    BY <1>1, <2>1 DEF Reset, Forget, Reached
<1>2. CASE SetPartsCount
  <2>1. partsCount' \in Counts
    BY <1>2 DEF SetPartsCount
  <2>2. perPart' = PerPart(partsCount') /\ perPart' \in 0..Scale /\ IsDouble(perPart')
    BY <1>2, <2>1, PerPartAccurate DEF SetPartsCount
  <2>3. kind = "encoder" => perPart' = Scale
    BY <1>2, <2>2, PerPartAccurate DEF SetPartsCount
  <2>4. TypeOK'
    BY <1>2, <2>1, <2>2 DEF SetPartsCount
  <2>5. PartsInv'
    BY <1>2, <2>1, <2>2, <2>3 DEF SetPartsCount
  <2>6. /\ progress' = progress /\ partNumber' = partNumber /\ kind' = kind
        /\ phase' = "between"
    BY <1>2 DEF SetPartsCount
  <2>7. (progress <= Reached(partNumber))'
    <3>1. CASE kind = "decoder"
      BY <1>2, <2>6, <3>1 DEF SetPartsCount, Reached
    <3>2. CASE kind = "encoder" /\ partNumber = 0
      <4>1. perPart * 0 = 0 /\ perPart' * 0 = 0 /\ 0 + 1 > 0 /\ (0 + 1) - 1 = 0
        BY <2>2
      <4>2. Times(perPart, 0) = 0 /\ Times(perPart', 0) = 0
        BY <4>1, NearestZero DEF Times
      <4>3. Reached(partNumber) = 0
        BY <3>2, <4>1, <4>2 DEF Reached, Begin
      <4>4. Reached(partNumber)' = 0
        BY <2>6, <3>2, <4>1, <4>2 DEF Reached, Begin
      <4> QED
        BY <2>6, <4>3, <4>4
    <3>3. CASE kind = "encoder" /\ partNumber > 0
      <4>1. perPart' = perPart
        BY <2>3, <3>3
      <4> QED
        BY <2>6, <4>1, SameReached
    <3> QED
      BY <3>1, <3>2, <3>3
  <2> QED
    BY <1>2, <2>4, <2>5, <2>6, <2>7
<1>3. CASE StartPart
  <2>1. /\ partNumber' = partNumber + 1 /\ perPart' = perPart /\ kind' = kind
        /\ progress' = progress /\ phase' = "started"
    BY <1>3 DEF StartPart
  <2>2. Reached(partNumber) \in Nat /\ Reached(partNumber) <= Reached(partNumber + 1)
    BY ReachedGrows
  <2>3. Reached(partNumber)' = Reached(partNumber + 1)
    BY <2>1 DEF Reached, EndOf, Begin
  <2>4. Reached(partNumber - 1)' = Reached(partNumber)
    <3>1. partNumber' - 1 = partNumber
      BY <2>1
    <3> QED
      BY <2>1, <3>1 DEF Reached, EndOf, Begin
  <2>5. Reached(partNumber + 1) \in Nat
    BY ReachedGrows
  <2>6. /\ phase = "between" /\ partsCount' = partsCount /\ operations' = operations
        /\ partCompleted' = 0 /\ partTotal' = 0
        /\ path' = path /\ delegate' = delegate /\ report' = report /\ informed' = informed
    BY <1>3 DEF StartPart
  <2>7. partNumber \in Nat
    BY DEF TypeOK
  <2>8. TypeOK'
    BY <2>1, <2>6, <2>7 DEF TypeOK
  <2>9. PartsInv'
    <3>1. IsDouble(perPart)'
      BY <2>1 DEF PartsInv
    <3>2. /\ kind = "decoder" => partNumber < partsCount /\ partsCount \in Nat
          /\ kind = "encoder" => /\ partsCount = 1 /\ partNumber < operations
                                 /\ partNumber > 0 => perPart = Scale
          /\ operations \in Nat /\ perPart = PerPart(partsCount)
      BY <2>6 DEF PartsInv
    <3>3. (partsCount = 1 => perPart = Scale) /\ (perPart = PerPart(partsCount))'
      BY <2>1, <2>6, <3>2, Constants, PerPartAccurate
    <3> QED
      BY <2>1, <2>6, <2>7, <3>1, <3>2, <3>3
  <2> QED
    BY <1>3, <2>1, <2>2, <2>3, <2>4, <2>5, <2>8, <2>9 DEF StartPart
<1>4. \* The methods that update the progress.
      ASSUME NEW n \in Nat \ {0}, NEW c \in Amounts \cup Totals, NEW m \in Totals,
             Update(n, c, m), kind = "encoder" => n = 1 \/ c = 0, n = partNumber,
             phase \in {"started", "running"}, phase' \in {"running", "finished"},
             phase' = "finished" => kind = "decoder",
             operations' = operations, kind = "encoder" /\ operations > 1 => c = 0
      PROVE  IInv'
  <2>1. /\ progress' = UpdatedProgress(n, c, m) /\ progress' \in Nat /\ progress' <= Reached(n)
        /\ report' \in [Threads -> Report \cup {NoReport}] /\ informed' \subseteq Delegates
    BY <1>4, UpdateEffect
  <2>2. /\ partNumber' = n /\ partCompleted' = c /\ partTotal' = m /\ path' = path
        /\ kind' = kind /\ delegate' = delegate /\ partsCount' = partsCount
        /\ perPart' = perPart
    BY <1>4 DEF Update
  <2>3. TypeOK'
    BY <1>4, <2>1, <2>2
  <2>4. PartsInv'
    BY <1>4, <2>2
  <2>5. Reached(partNumber)' = Reached(n)
    BY <2>2 DEF Reached, EndOf, Begin
  <2>6. UpdatedProgress(partNumber, partCompleted, partTotal)' = UpdatedProgress(n, c, m)
    BY <2>2 DEF UpdatedProgress, Begin, Share
  <2>7. PartInv'
    BY <1>4, <2>1, <2>2, <2>5, <2>6
  <2> QED
    BY <2>3, <2>4, <2>7
<1>5. CASE SetTotal
  <2>1. PICK m \in Totals : Update(partNumber, partCompleted, m)
    BY <1>5 DEF SetTotal
  <2>2. /\ phase = "started" /\ phase' = "running" /\ operations' = operations
        /\ partNumber \in Nat \ {0} /\ partCompleted \in Amounts \cup Totals
        /\ partCompleted = 0
    BY <1>5 DEF SetTotal
  <2> QED
    BY <1>4, <2>1, <2>2
<1>6. CASE SetCompleted
  <2>1. PICK c \in Amounts :
              /\ kind = "encoder" /\ operations > 1 => c = 0
              /\ Update(partNumber, c, partTotal)
    BY <1>6 DEF SetCompleted
  <2>2. /\ phase = "running" /\ phase' = phase /\ operations' = operations
        /\ partNumber \in Nat \ {0} /\ c \in Amounts \cup Totals /\ partTotal \in Totals
    BY <1>6 DEF SetCompleted
  <2>3. kind = "encoder" => partNumber = 1 \/ c = 0
    BY <2>1, <2>2
  <2> QED
    BY <1>4, <2>1, <2>2, <2>3
<1>7. CASE Finish
  <2>1. Update(partsCount, partTotal, partTotal)
    BY <1>7 DEF Finish, CompletedAtEnd
  <2>2. /\ phase' = "finished" /\ operations' = operations /\ kind = "decoder"
        /\ phase \in {"started", "running"} /\ partsCount = partNumber
        /\ partsCount \in Nat \ {0} /\ partTotal \in Totals
    BY <1>7 DEF Finish
  <2> QED
    BY <1>4, <2>1, <2>2
<1>8. CASE SetPath
  <2>1. path' \in Paths /\ progress' = progress
    BY <1>8 DEF SetPath
  <2>2. Copy(delegate) \in Report \cup {NoReport}
    BY <2>1 DEF Copy, Report
  <2>3. TypeOK'
    BY <1>8, <2>1, <2>2 DEF SetPath, Reports, Forget
  <2> QED
    BY <1>8, <2>3 DEF SetPath, UpdatedProgress, Reached, EndOf, Begin, Share
<1>9. CASE EndPart \/ Return
  <2>1. TypeOK' /\ PartsInv'
    BY <1>9 DEF EndPart, Return
  <2> QED
    BY <1>9, <2>1 DEF EndPart, Return, Reached, EndOf, Begin
<1>10. ASSUME NEW u \in Users, NEW d \in Delegates \cup {NoDelegate}, SetDelegate(u, d)
       PROVE  IInv'
  <2>1. Copy(d) \in Report \cup {NoReport}
    BY <1>10 DEF SetDelegate, Copy, Report
  <2>2. TypeOK'
    BY <1>10, <2>1 DEF SetDelegate, Reports, Threads
  <2> QED
    BY <1>10, <2>2 DEF SetDelegate, UpdatedProgress, Reached, EndOf, Begin, Share
<1>11. ASSUME NEW t \in Threads, Deliver(t)
       PROVE  IInv'
  <2>1. report[t] \in Report
    BY <1>11 DEF Deliver, Idle
  <2>2. TypeOK'
    BY <1>11, <2>1 DEF Deliver, Report
  <2> QED
    BY <1>11, <2>2 DEF Deliver, UpdatedProgress, Reached, EndOf, Begin, Share
<1>12. CASE UNCHANGED vars
  BY <1>12 DEF vars, UpdatedProgress, Reached, EndOf, Begin, Share
<1> QED
  BY <1>1, <1>2, <1>3, <1>5, <1>6, <1>7, <1>8, <1>9, <1>10, <1>11, <1>12
     DEF Next

----------------------------------------------------------------------------
\* Every update stays in range, except for an encoder that is used a third time.
LEMMA NextRange == IInv /\ RangeInv /\ [Next]_vars => RangeInv'
<1> SUFFICES ASSUME IInv, RangeInv, [Next]_vars,
                    kind' = "decoder" \/ operations' <= 2
             PROVE  /\ InRange(progress')
                    /\ \A t \in Threads : report'[t] # NoReport => InRange(report'[t].progress)
  BY DEF RangeInv, Idle
<1> USE DEF RangeInv, Idle
<1>1. \* Whatever is reported is the old progress, the new one, or was to be reported.
      ASSUME NEW n \in Nat \ {0}, NEW c \in Amounts \cup Totals, NEW m \in Totals,
             Update(n, c, m), kind = "encoder" => n = 1 \/ c = 0, n = partNumber,
             phase \in {"started", "running"}, operations' = operations
      PROVE  /\ InRange(progress')
             /\ \A t \in Threads : report'[t] # NoReport => InRange(report'[t].progress)
  <2>1. /\ progress' = UpdatedProgress(n, c, m)
        /\ progress' \in Nat /\ progress' <= Reached(n)
        /\ \A t \in Threads : \/ report'[t] = report[t]
                              \/ report'[t] = NoReport
                              \/ report'[t].progress = progress'
    BY <1>1, UpdateEffect
  <2>2. /\ kind' = kind /\ partsCount \in Counts /\ perPart = PerPart(partsCount)
        /\ kind \in {"decoder", "encoder"} /\ operations \in Nat /\ c \in Nat /\ m \in Nat
    BY <1>1, Constants DEF Update, IInv, TypeOK, PartsInv
  <2>3. InRange(progress')
    <3>1. CASE kind = "decoder"
      <4>1. n \in 1..partsCount
        BY <1>1, <2>2, <3>1, Constants DEF IInv, PartsInv
      <4>2. EndOf(n) \in Nat /\ EndOf(n) <= Scale + Tolerance
        BY <2>2, <4>1, PartsInPlace
      <4>3. progress' <= EndOf(n)
        BY <1>1, <2>1, <3>1 DEF Reached
      <4> QED
        BY <2>1, <4>2, <4>3, Constants DEF InRange
    <3>2. CASE kind = "encoder"
      <4>1. n <= 2 /\ perPart = Scale
        BY <1>1, <2>2, <3>2 DEF IInv, PartsInv
      <4>2. UpdatedProgress(n, c, m) <= Scale
        BY <1>1, <2>2, <3>2, <4>1, WholeParts
      <4> QED
        BY <2>1, <4>2, Constants DEF InRange
    <3> QED
      BY <2>2, <3>1, <3>2
  <2> QED
    BY <1>1, <2>1, <2>2, <2>3
<1>2. CASE Reset
  <2>1. progress' = 0 /\ kind' = "decoder" /\ kind = "decoder" /\ report' = report
    BY <1>2 DEF Reset
  <2> QED
    BY <2>1, Constants DEF InRange
<1>3. CASE SetPartsCount \/ StartPart \/ EndPart \/ Return
  <2>1. /\ progress' = progress /\ kind' = kind /\ report' = report
        /\ operations' <= 2 => operations <= 2
    BY <1>3 DEF SetPartsCount, StartPart, EndPart, Return, Goto, operation, told, IInv, TypeOK
  <2> QED
    BY <2>1
<1>4. CASE SetTotal
  <2>1. PICK m \in Totals : Update(partNumber, partCompleted, m)
    BY <1>4 DEF SetTotal
  <2>2. /\ phase = "started" /\ operations' = operations
        /\ partNumber \in Nat \ {0} /\ partCompleted \in Amounts \cup Totals
        /\ partCompleted = 0
    BY <1>4 DEF SetTotal, At, Goto, IInv, TypeOK, PartsInv, PartInv
  <2> QED
    BY <1>1, <2>1, <2>2
<1>5. CASE SetCompleted
  <2>1. PICK c \in Amounts :
              /\ kind = "encoder" /\ operations > 1 => c = 0
              /\ Update(partNumber, c, partTotal)
    BY <1>5 DEF SetCompleted
  <2>2. /\ phase = "running" /\ operations' = operations
        /\ partNumber \in Nat \ {0} /\ c \in Amounts \cup Totals /\ partTotal \in Totals
    BY <1>5 DEF SetCompleted, At, operation, IInv, TypeOK, PartsInv
  <2>3. kind = "encoder" => partNumber = 1 \/ c = 0
    BY <2>1, <2>2 DEF IInv, TypeOK, PartsInv
  <2> QED
    BY <1>1, <2>1, <2>2, <2>3
<1>6. CASE SetPath
  BY <1>6 DEF SetPath, Reports, Copy, operation, IInv, TypeOK
<1>7. CASE Finish
  <2>1. Update(partsCount, partTotal, partTotal)
    BY <1>7 DEF Finish, CompletedAtEnd
  <2>2. /\ kind = "decoder" /\ operations' = operations
        /\ phase \in {"started", "running"} /\ partsCount = partNumber
        /\ partsCount \in Nat \ {0} /\ partTotal \in Totals
    BY <1>7, Constants DEF Finish, At, Goto, IInv, TypeOK
  <2> QED
    BY <1>1, <2>1, <2>2
<1>8. ASSUME NEW u \in Users, NEW d \in Delegates \cup {NoDelegate}, SetDelegate(u, d)
      PROVE  /\ InRange(progress')
             /\ \A t \in Threads : report'[t] # NoReport => InRange(report'[t].progress)
  BY <1>8 DEF SetDelegate, Reports, Copy, operation, told, IInv, TypeOK
<1>9. ASSUME NEW t \in Threads, Deliver(t)
      PROVE  /\ InRange(progress')
             /\ \A s \in Threads : report'[s] # NoReport => InRange(report'[s].progress)
  BY <1>9 DEF Deliver, operation, told, IInv, TypeOK
<1>10. CASE UNCHANGED vars
  BY <1>10 DEF vars, operation, told
<1> QED
  BY <1>2, <1>3, <1>4, <1>5, <1>6, <1>7, <1>8, <1>9, <1>10 DEF Next

\* A report that replaces another thread's news brings newer ones.
LEMMA NextNews == IInv /\ NoNewsLost /\ [Next]_vars => NoNewsLost'
<1> SUFFICES ASSUME IInv, NoNewsLost, [Next]_vars,
                    delegate' # NoDelegate, progress' > 0
             PROVE  \/ delegate' \in informed'
                    \/ \E t \in Threads : report'[t] =
                          [delegate |-> delegate', path |-> path', progress |-> progress']
  BY DEF NoNewsLost
<1> USE DEF NoNewsLost, Idle, At, told
<1>1. Worker \in Threads /\ report \in [Threads -> Report \cup {NoReport}]
  BY DEF Threads, IInv, TypeOK
<1>2. ASSUME NEW n, NEW c, NEW m, Update(n, c, m), report[Worker] = NoReport
      PROVE  \/ delegate' \in informed'
             \/ \E t \in Threads : report'[t] =
                   [delegate |-> delegate', path |-> path', progress |-> progress']
  <2>1. CASE progress' # progress
    BY <1>1, <1>2, <2>1 DEF Update, Reports, HasChanged, Copy
  <2>2. CASE progress' = progress
    BY <1>1, <1>2, <2>2 DEF Update, Reports, HasChanged, Copy, Forget
  <2> QED
    BY <2>1, <2>2
<1>3. CASE Reset
  BY <1>3 DEF Reset
<1>4. CASE SetPartsCount \/ StartPart \/ EndPart \/ Return
  BY <1>4 DEF SetPartsCount, StartPart, EndPart, Return
<1>5. CASE SetTotal \/ SetCompleted \/ Finish
  BY <1>2, <1>5 DEF SetTotal, SetCompleted, Finish
<1>6. CASE SetPath
  BY <1>1, <1>6 DEF SetPath, Reports, Copy
<1>7. ASSUME NEW u \in Users, NEW d \in Delegates \cup {NoDelegate}, SetDelegate(u, d)
      PROVE  \E t \in Threads : report'[t] =
                [delegate |-> delegate', path |-> path', progress |-> progress']
  BY <1>1, <1>7 DEF SetDelegate, Reports, Copy, IsDue, Threads
<1>8. ASSUME NEW t \in Threads, Deliver(t)
      PROVE  \/ delegate' \in informed'
             \/ \E s \in Threads : report'[s] =
                   [delegate |-> delegate', path |-> path', progress |-> progress']
  BY <1>1, <1>8 DEF Deliver
<1>9. CASE UNCHANGED vars
  BY <1>9 DEF vars
<1> QED
  BY <1>3, <1>4, <1>5, <1>6, <1>7, <1>8, <1>9 DEF Next

\* finish() completes the last part, and the parts fill the scale.
LEMMA NextEnd == IInv /\ EndsAtOne /\ [Next]_vars => EndsAtOne'
<1> SUFFICES ASSUME IInv, EndsAtOne, [Next]_vars, phase' = "finished", partTotal' > 0
             PROVE  progress' <= Scale + Tolerance /\ Scale <= progress' + Tolerance
  BY DEF EndsAtOne
<1> USE DEF EndsAtOne, At, Goto, operation, parts, part, told
<1>1. CASE Finish
  <2>1. /\ Update(partsCount, partTotal, partTotal) /\ partTotal > 0
        /\ perPart = PerPart(partsCount)
    BY <1>1 DEF Finish, CompletedAtEnd, Update, IInv, PartsInv
  <2>2. /\ partsCount \in Counts /\ partsCount \in Nat \ {0} /\ partsCount \in 1..partsCount
        /\ perPart \in Nat /\ IsDouble(perPart) /\ partTotal \in Nat
        /\ partTotal <= partTotal /\ partTotal >= partTotal
    BY Constants DEF IInv, TypeOK, PartsInv
  <2>3. progress' = EndOf(partsCount)
    <3>1. UpdatedProgress(partsCount, partTotal, partTotal) = EndOf(partsCount)
      BY <2>1, <2>2, Updates
    <3> QED
      BY <2>1, <3>1 DEF Update
  <2> QED
    BY <2>1, <2>2, <2>3, PartsInPlace
<1>2. CASE Reset \/ SetPartsCount \/ StartPart \/ SetTotal \/ EndPart \/ Return
  BY <1>2 DEF Reset, SetPartsCount, StartPart, SetTotal, EndPart, Return
<1>3. CASE SetCompleted \/ SetPath
  BY <1>3 DEF SetCompleted, SetPath
<1>4. ASSUME NEW u \in Users, NEW d \in Delegates \cup {NoDelegate}, SetDelegate(u, d)
      PROVE  progress' <= Scale + Tolerance /\ Scale <= progress' + Tolerance
  BY <1>4 DEF SetDelegate
<1>5. ASSUME NEW t \in Threads, Deliver(t)
      PROVE  progress' <= Scale + Tolerance /\ Scale <= progress' + Tolerance
  BY <1>5 DEF Deliver
<1>6. CASE UNCHANGED vars
  BY <1>6 DEF vars
<1> QED
  BY <1>1, <1>2, <1>3, <1>4, <1>5, <1>6 DEF Next

\* A part begins no farther below the end of the one before than a rounding error.
LEMMA BeginsNear ==
    ASSUME IInv, phase = "started"
    PROVE  progress - Begin(partNumber) <= Tolerance
<1> DEFINE k == partNumber
<1>1. /\ k \in Nat \ {0} /\ progress \in Nat /\ progress <= Reached(k - 1)
      /\ perPart \in Nat /\ IsDouble(perPart) /\ perPart = PerPart(partsCount)
      /\ partsCount \in Counts /\ kind \in {"decoder", "encoder"}
      /\ kind = "decoder" => k <= partsCount
  BY Constants DEF IInv, TypeOK, PartsInv, PartInv
<1>2. Tolerance \in Nat /\ partsCount \in Nat
  BY <1>1, Constants
<1>3. (k - 1) + 1 = k
  BY <1>1
<1>4. Begin(k) \in Nat /\ Begin(1) = 0
  <2>1. k <= k
    BY <1>1
  <2> QED
    BY <1>1, <2>1, Beginnings
<1> HIDE DEF k
<1>5. CASE kind = "encoder"
  <2>1. progress <= Begin(k)
    BY <1>1, <1>3, <1>5 DEF Reached
  <2> QED
    BY <1>1, <1>2, <1>4, <2>1 DEF k
<1>6. CASE kind = "decoder" /\ k = 1
  <2>1. progress <= 0
    BY <1>1, <1>6 DEF Reached
  <2> QED
    BY <1>1, <1>2, <1>4, <1>6, <2>1 DEF k
<1>7. CASE kind = "decoder" /\ k > 1
  <2>1. k - 1 \in 1..partsCount /\ k - 1 # 0
    BY <1>1, <1>2, <1>7
  <2>2. EndOf(k - 1) \in Nat /\ EndOf(k - 1) - Begin((k - 1) + 1) <= Tolerance
    BY <1>1, <2>1, PartsInPlace
  <2>3. progress <= EndOf(k - 1)
    BY <1>1, <1>7, <2>1 DEF Reached
  <2> QED
    BY <1>1, <1>2, <1>3, <1>4, <2>2, <2>3 DEF k
<1> QED
  BY <1>1, <1>5, <1>6, <1>7

\* What is little above a beginning falls by little to anything that is not below it.
LEMMA Below ==
    ASSUME NEW a \in Nat, NEW b \in Nat, NEW c \in Nat, NEW t \in Nat,
           a - b <= t, b <= c
    PROVE  a - c <= t
OBVIOUS

\* Only a reset takes back what was reached, but for a rounding error where a part
\* begins.
LEMMA NextRises ==
    ASSUME IInv, [Next]_vars, phase' \notin {"called", "reset"}
    PROVE  \/ progress' >= progress
           \/ phase = "started" /\ progress - progress' <= Tolerance
<1> USE DEF At, Goto, operation, parts, part, told
<1>1. progress \in Nat /\ Tolerance \in Nat
  BY Constants DEF IInv, TypeOK
<1>2. CASE Reset
  BY <1>2 DEF Reset
<1>3. CASE SetPartsCount \/ StartPart \/ SetPath \/ EndPart \/ Return
  <2>1. progress' = progress
    BY <1>3 DEF SetPartsCount, StartPart, SetPath, EndPart, Return
  <2> QED
    BY <1>1, <2>1
<1>4. \* A part begins.
      ASSUME phase = "started", progress' \in Nat, Begin(partNumber) \in Nat,
             Begin(partNumber) <= progress'
      PROVE  progress - progress' <= Tolerance
  <2>1. progress - Begin(partNumber) <= Tolerance
    BY <1>4, BeginsNear
  <2> QED
    BY ONLY <1>1, <1>4, <2>1, Below, Zenon
<1>5. \* A part goes on.
      ASSUME phase = "running", NEW c \in Nat, partCompleted <= c,
             progress' = UpdatedProgress(partNumber, c, partTotal)
      PROVE  progress' >= progress
  <2>1. /\ perPart \in Nat /\ IsDouble(perPart) /\ partNumber \in Nat \ {0}
        /\ partCompleted \in Nat /\ partTotal \in Nat /\ c <= c
        /\ progress = UpdatedProgress(partNumber, partCompleted, partTotal)
    BY <1>5, Constants DEF IInv, TypeOK, PartsInv, PartInv
  <2>2. /\ UpdatedProgress(partNumber, partCompleted, partTotal)
              <= UpdatedProgress(partNumber, c, partTotal)
    BY <1>5, <2>1, Updates, Zenon
  <2>3. UpdatedProgress(partNumber, c, partTotal) \in Nat
    BY <2>1, Updates, Zenon
  <2> QED
    BY <1>1, <1>5, <2>1, <2>2, <2>3
<1>6. CASE SetTotal
  <2>1. PICK m \in Totals : Update(partNumber, partCompleted, m)
    BY <1>6 DEF SetTotal
  <2>2. /\ partNumber \in Nat \ {0} /\ phase = "started" /\ partCompleted = 0
        /\ partCompleted \in Amounts \cup Totals
    BY <1>6 DEF SetTotal, IInv, TypeOK, PartsInv, PartInv
  <2>3. progress' \in Nat /\ Begin(partNumber) \in Nat /\ Begin(partNumber) <= progress'
    BY <2>1, <2>2, UpdateEffect
  <2> QED
    BY <1>4, <2>2, <2>3
<1>7. CASE SetCompleted
  <2>1. PICK c \in Amounts : c >= partCompleted /\ Update(partNumber, c, partTotal)
    BY <1>7 DEF SetCompleted
  <2>2. phase = "running" /\ c \in Nat /\ partCompleted <= c
    BY <1>7, <2>1, Constants DEF SetCompleted, IInv, TypeOK
  <2>3. progress' = UpdatedProgress(partNumber, c, partTotal)
    BY <2>1 DEF Update
  <2> QED
    BY <1>5, <2>2, <2>3
<1>8. CASE Finish
  <2>1. /\ Update(partNumber, partTotal, partTotal) /\ kind = "decoder"
        /\ phase \in {"started", "running"}
    BY <1>8 DEF Finish, CompletedAtEnd
  <2>2. partNumber \in Nat \ {0} /\ partTotal \in Totals /\ partTotal \in Nat
    BY <2>1, Constants DEF IInv, TypeOK, PartsInv
  <2>3. CASE phase = "started"
    <3>1. progress' \in Nat /\ Begin(partNumber) \in Nat /\ Begin(partNumber) <= progress'
      BY <2>1, <2>2, UpdateEffect
    <3> QED
      BY <1>4, <2>3, <3>1
  <2>4. CASE phase = "running"
    <3>1. progress' = UpdatedProgress(partNumber, partTotal, partTotal)
      BY <2>1 DEF Update
    <3>2. CASE partCompleted <= partTotal
      BY <1>5, <2>2, <2>4, <3>1, <3>2
    <3>3. CASE partCompleted > partTotal
      <4>1. /\ perPart \in Nat /\ IsDouble(perPart) /\ partCompleted \in Nat
            /\ partTotal <= partTotal /\ partTotal >= partTotal
            /\ partCompleted <= partCompleted /\ partCompleted >= partTotal
            /\ progress = UpdatedProgress(partNumber, partCompleted, partTotal)
        BY <2>4, <2>2, <3>3, Constants DEF IInv, TypeOK, PartsInv, PartInv
      <4>2. progress' = progress
        <5>1. CASE partTotal = 0
          BY <3>1, <4>1, <5>1 DEF UpdatedProgress
        <5>2. CASE partTotal > 0
          <6>1. UpdatedProgress(partNumber, partTotal, partTotal) = EndOf(partNumber)
            BY <2>2, <4>1, <5>2, Updates
          <6>2. UpdatedProgress(partNumber, partCompleted, partTotal) = EndOf(partNumber)
            BY <2>2, <4>1, <5>2, Updates
          <6> QED
            BY <3>1, <4>1, <6>1, <6>2
        <5> QED
          BY <2>2, <5>1, <5>2
      <4> QED
        BY <1>1, <4>2
    <3>4. partCompleted \in Nat
      BY Constants DEF IInv, TypeOK
    <3> QED
      BY <2>2, <3>2, <3>3, <3>4
  <2> QED
    BY <2>1, <2>3, <2>4
<1>9. ASSUME NEW u \in Users, NEW d \in Delegates \cup {NoDelegate}, SetDelegate(u, d)
      PROVE  progress' >= progress
  BY <1>1, <1>9 DEF SetDelegate
<1>10. ASSUME NEW t \in Threads, Deliver(t)
       PROVE  progress' >= progress
  BY <1>1, <1>10 DEF Deliver
<1>11. CASE UNCHANGED vars
  BY <1>1, <1>11 DEF vars
<1> QED
  BY <1>2, <1>3, <1>6, <1>7, <1>8, <1>9, <1>10, <1>11 DEF Next

----------------------------------------------------------------------------
\* The invariant and what it carries, in every state of every behaviour.
LEMMA Invariant == Spec => [](IInv /\ RangeInv /\ NoNewsLost /\ EndsAtOne)
<1>1. Init => IInv /\ RangeInv /\ NoNewsLost /\ EndsAtOne
  BY InitInv DEF Init, EndsAtOne
<1>2. IInv /\ RangeInv /\ NoNewsLost /\ EndsAtOne /\ [Next]_vars =>
         (IInv /\ RangeInv /\ NoNewsLost /\ EndsAtOne)'
  BY NextInv, NextRange, NextNews, NextEnd
<1> QED
  BY <1>1, <1>2, PTL DEF Spec

\* Every variable stays in its type: the counters of setTotal(), setCompleted() and
\* startPart() give a progress that is a number, and reports go to delegates.
THEOREM TypeCorrect == Spec => []TypeOK
<1>1. IInv => TypeOK
  BY DEF IInv
<1> QED
  BY <1>1, Invariant, PTL

\* No news is lost: whoever is the delegate of a progress that has begun was told of
\* it as it is, or some thread is about to tell it, although reports are delivered
\* after the mutex was given back.
THEOREM NoNewsLostHolds == Spec => []NoNewsLost
BY Invariant, PTL

\* finish() ends within two units in the last place of 1.0, whatever the number of
\* batches and the precision, if the last batch had data.
THEOREM EndsAtOneHolds == Spec => []EndsAtOne
BY Invariant, PTL

\* updateProgress() exceeds 1.0 by two units in the last place at most, for every
\* extraction and the first two compress() of an encoder, whatever the archive says
\* it has done.  Every later compress() exceeds it by more as soon as it updates.
THEOREM RangeUntilRetriedHolds == Spec => []RangeUntilRetried
<1>1. IInv /\ RangeInv => RangeUntilRetried
  <2> SUFFICES ASSUME IInv, RangeInv,
                      kind = "encoder" /\ partNumber > 2 /\ phase = "running"
               PROVE  ~InRange(progress)
    BY DEF RangeInv, RangeUntilRetried
  <2>1. /\ perPart = Scale /\ perPart \in Nat /\ IsDouble(perPart)
        /\ partNumber \in Nat \ {0} /\ partNumber > 2 /\ progress \in Nat
        /\ partCompleted \in Nat /\ partTotal \in Nat /\ partCompleted <= partCompleted
        /\ progress = UpdatedProgress(partNumber, partCompleted, partTotal)
    BY Constants DEF IInv, TypeOK, PartsInv, PartInv
  <2>2. Begin(partNumber) <= progress
    BY <2>1, Updates, Zenon
  <2>3. Begin(partNumber) \in Nat /\ Begin(partNumber) > Scale + Tolerance
    BY <2>1, BeyondRange
  <2> QED
    BY <2>1, <2>2, <2>3, Constants DEF InRange
<1> QED
  BY <1>1, Invariant, PTL

\* Within a part the progress never falls, and where one begins by two units in the
\* last place of 1.0 at most; only reset() takes it back.
THEOREM NeverFallsHolds == Spec => NeverFalls
<1> DEFINE A == progress' < progress =>
                   \/ phase' \in {"called", "reset"}
                   \/ phase = "started" /\ progress - progress' <= Tolerance
<1>1. IInv /\ [Next]_vars => [A]_vars
  <2> SUFFICES ASSUME IInv, [Next]_vars, phase' \notin {"called", "reset"},
                      progress' < progress
               PROVE  phase = "started" /\ progress - progress' <= Tolerance
    OBVIOUS
  <2>1. progress \in Nat /\ progress' \in Nat
    BY NextInv DEF IInv, TypeOK
  <2>2. ~(progress' >= progress)
    BY <2>1
  <2> QED
    BY <2>2, NextRises
<1> QED
  BY <1>1, Invariant, PTL DEF Spec, NeverFalls
=============================================================================
