------------------------------- MODULE Doubles --------------------------------
(***************************************************************************)
(* The arithmetic of the non-negative doubles: every result is the double  *)
(* nearest to the exact one.  All numbers are whole: they count units of   *)
(* 1 / Scale, and the unit is the smallest double.  From u * Accuracy on   *)
(* the doubles are multiples of u, for each of the spacings u.             *)
(*                                                                         *)
(* A double of the code has an Accuracy of 2^52, spacings of all powers of *)
(* two and a unit of 2^-1074; it converts integers below 2^53 exactly.     *)
(***************************************************************************)
EXTENDS Naturals

CONSTANTS
    Scale,          \* the number 1.0
    Spacings,       \* distances of neighbours
    Accuracy        \* how many spacings a number has at least, if not the smallest

Fits(u, x, y) == u = 1 \/ u * Accuracy * y <= x

\* The spacing of the doubles around x / y.
Spacing(x, y) ==
    CHOOSE u \in Spacings :
        Fits(u, x, y) /\ \A w \in Spacings : Fits(w, x, y) => w <= u

IsDouble(d) == d % Spacing(d, 1) = 0

ASSUME DoublesAssumption ==
    /\ Accuracy \in Nat /\ Accuracy > 4
    /\ 1 \in Spacings /\ Spacings \subseteq Nat \ {0}
    /\ \A u, w \in Spacings : u < w => w % u = 0
    /\ Scale \in Nat \ {0} /\ IsDouble(Scale)

\* x / s as a whole number, the even one if two are as near.
Rounded(x, s) ==
    LET twice == 2 * (x % s)
        q == x \div s
    IN  IF twice < s \/ (twice = s /\ q % 2 = 0) THEN q ELSE q + 1

\* The double nearest to x / y.
Nearest(x, y) == LET u == Spacing(x, y) IN u * Rounded(x, u * y)

Sum(a, b) == Nearest(a + b, 1)
Product(a, b) == Nearest(a * b, Scale)
Times(a, n) == Nearest(a * n, 1)            \* n is a whole number
Quotient(m, n) == Nearest(m * Scale, n)     \* of whole numbers
=============================================================================
