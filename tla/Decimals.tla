------------------------------ MODULE Decimals ------------------------------
(***************************************************************************)
(* Decimal numbers as integers in 1/Unit.  A division rounds half away     *)
(* from zero, as shopspring/decimal does at its sixteenth digit.           *)
(***************************************************************************)
EXTENDS Integers, FiniteSetsExt

CONSTANT Unit           \* the fixed point: 1 is Unit

ASSUME UnitPositive == Unit \in Nat \ {0}

RoundDiv(a, b) ==
    LET x == IF a < 0 THEN -a ELSE a
        y == IF b < 0 THEN -b ELSE b
        q == (2 * x + y) \div (2 * y)
    IN  IF (a >= 0) = (b > 0) THEN q ELSE -q

FMul(x, y) == RoundDiv(x * y, Unit)
FDiv(x, y) == RoundDiv(x * Unit, y)
Hundred == 100 * Unit
Abs(x) == IF x < 0 THEN -x ELSE x
SumOver(f, from, to) == MapThenSumSet(LAMBDA j : f[j], from .. to)

\* decimalSqrt, to the fixed point.
Root(x) ==
    IF x <= 0 THEN 0
    ELSE CHOOSE r \in 0 .. x + Unit : r * r <= x * Unit /\ (r + 1) * (r + 1) > x * Unit
=============================================================================
