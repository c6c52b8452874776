------------------------------- MODULE SdkDec -------------------------------
(***************************************************************************)
(* Fixed-point decimals as the chain computes with them: a decimal d is    *)
(* the integer d * Scale (Scale is 10^18 in the program, a small perfect   *)
(* square in the checked instances).  Mul, Quo, RoundInt, Ceil and QuoInt  *)
(* are cosmos-sdk's sdk.Dec, which x/common/dec.go repeats in part         *)
(* (ChopPrecisionAndRound) and extends (MustSqrtDec).                      *)
(***************************************************************************)
EXTENDS Integers

CONSTANTS
    Scale,       \* 10^Precision: the integer that stands for one
    SqrtScale    \* PRECISION_MULT: the square root of Scale

ASSUME ScaleAssumption ==
    /\ Scale \in Nat \ {0}
    /\ SqrtScale \in Nat \ {0}
    /\ SqrtScale * SqrtScale = Scale

One == Scale

\* sdk.Int -> sdk.Dec
ToDec(i) == i * Scale

Abs(x) == IF x < 0 THEN -x ELSE x
MinDec(x, y) == IF x < y THEN x ELSE y
MaxDec(x, y) == IF x < y THEN y ELSE x

\* big.Int.Quo: integer division truncated towards zero.
Quot(a, b) ==
    IF (a < 0) = (b < 0) THEN Abs(a) \div Abs(b) ELSE -(Abs(a) \div Abs(b))

\* Removes the fractional digits of a natural number, bankers' rounding.
ChopNat(n) ==
    LET quo == n \div Scale
        rem == n % Scale
    IN  IF 2 * rem < Scale \/ (2 * rem = Scale /\ quo % 2 = 0)
        THEN quo
        ELSE quo + 1

ChopPrecisionAndRound(d) == IF d < 0 THEN -ChopNat(-d) ELSE ChopNat(d)

Mul(a, b) == ChopPrecisionAndRound(a * b)

\* Rounds a * Scale * Scale / b; the division is done in two steps, which give
\* the digits of the quotient without the large product.
Quo(a, b) ==
    LET n == Abs(a) * Scale
        d == Abs(b)
        digits == (n \div d) * Scale + ((n % d) * Scale) \div d
    IN  IF (a < 0) = (b < 0) THEN ChopNat(digits) ELSE -ChopNat(digits)
QuoInt(a, i) == Quot(a, i)

\* sdk.Dec -> sdk.Int
RoundInt(d) == ChopPrecisionAndRound(d)
CeilInt(d) ==
    LET q == Quot(d, Scale) IN IF d > q * Scale THEN q + 1 ELSE q

\* big.Int.Sqrt: the integer part of the square root.
ISqrt(n) == CHOOSE r \in 0..n : r * r <= n /\ n < (r + 1) * (r + 1)

MustSqrtDec(d) == Quo(ToDec(ISqrt(d)), ToDec(SqrtScale))
=============================================================================
