------------------------------ MODULE Rationals ------------------------------
(***************************************************************************)
(* Exact fractions.  The engine computes prices and profits in doubles;    *)
(* the model computes them exactly, so that what a run compares is the     *)
(* arithmetic of the code and not its rounding.                            *)
(*                                                                         *)
(* A fraction whose denominator divides its numerator is kept over 1.      *)
(* Other fractions are not reduced: compare them with RatEq.               *)
(***************************************************************************)
EXTENDS Integers

Rational == [num : Int, den : Nat \ {0}]

Rat(n) == [num |-> n, den |-> 1]

\* n / d for a denominator d of either sign, d # 0.
Ratio(n, d) ==
    LET sn == IF d < 0 THEN -n ELSE n
        sd == IF d < 0 THEN -d ELSE d
    IN  IF sn % sd = 0 THEN Rat(sn \div sd) ELSE [num |-> sn, den |-> sd]

RatAdd(a, b) == Ratio(a.num * b.den + b.num * a.den, a.den * b.den)
RatScale(k, a) == Ratio(k * a.num, a.den)
RatDiv(a, k) == Ratio(a.num, a.den * k)
RatSub(a, b) == RatAdd(a, RatScale(-1, b))

RatEq(a, b) == a.num * b.den = b.num * a.den
RatLess(a, b) == a.num * b.den < b.num * a.den
==============================================================================
