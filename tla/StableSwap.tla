----------------------------- MODULE StableSwap -----------------------------
(***************************************************************************)
(* The curve of a stableswap pool of two coins (MinPoolAssets =            *)
(* MaxPoolAssets = 2): x/spot/types/pool.go computes its invariant D, and  *)
(* the balance of one coin that keeps D when the other changes, by         *)
(* Newton's method in integer arithmetic.  The amounts stay far below the  *)
(* 2^64 at which the code's conversions would cut them.                    *)
(***************************************************************************)
EXTENDS Integers, SdkDec

CONSTANT MaxIterations   \* 255, the bound of both loops

ASSUME IterationsAssumption == MaxIterations \in Nat \ {0}

\* A turn of the loop of both solvers, which ends when two values differ by less
\* than two, and after it the turns of rest.
Turn(step, rest) ==
    [v \in Nat |-> LET next == step[v]
                   IN  IF Abs(next - v) < 2 THEN next ELSE rest[next]]
Newton(step, start) ==
    LET run[k \in 0..MaxIterations] ==
            IF k = 0 THEN [v \in Nat |-> v] ELSE Turn(step, run[k - 1])
    IN  run[MaxIterations][start]

\* The amplification, A * n^n for n = 2.
Ann(amp) == 4 * amp

\* Mutant: the divisor counts D_P as often as the numerator does.
GetDWrongDivisor(x, y, amp) ==
    Newton([D \in Nat |->
                LET DP == (((D * D) \div (2 * x)) * D) \div (2 * y)
                IN  ((Ann(amp) * (x + y) + 2 * DP) * D)
                        \div ((Ann(amp) - 1) * D + 2 * DP)], x + y)

\* Pool.GetD for non-zero balances x and y, and a turn of it.
StepD(x, y, amp) ==
    [D \in Nat |-> LET DP == (((D * D) \div (2 * x)) * D) \div (2 * y)
                   IN  ((Ann(amp) * (x + y) + 2 * DP) * D)
                           \div ((Ann(amp) - 1) * D + 3 * DP)]
GetD(x, y, amp) == Newton(StepD(x, y, amp), x + y)

\* Pool.SolveStableswapInvariant: the balance of the coin paid out when the
\* balance of the coin paid in becomes x, and a turn of it.
StepY(b, c, D) == [y \in Nat |-> (y * y + c) \div (2 * y + b - D)]
SolveStableswapInvariant(x, D, amp) ==
    LET c == (((D * D) \div (2 * x)) * D) \div (2 * Ann(amp))
        b == x + D \div Ann(amp)
    IN  Newton(StepY(b, c, D), D)

\* Reference: the two sides of the curve's equation, Ann S + D = Ann D + D^3 / (4 x y),
\* multiplied out, have not crossed at D by more than slack; and the largest such D.
NotAbove(D, x, y, amp, slack) ==
    D * D * D + 4 * x * y * (Ann(amp) - 1) * D <= 4 * x * y * Ann(amp) * (x + y) + slack
CurveD(x, y, amp) ==
    CHOOSE D \in 0..(x + y) :
        NotAbove(D, x, y, amp, 0) /\ ~ NotAbove(D + 1, x, y, amp, 0)

\* GetD ends on the curve from above: not under its root, and above it by at most
\* one more than the two cut divisions of D_P, which lose less than 1 + D / 2y of
\* D^3 / (4 x y), can account for.
OnCurve(x, y, amp) ==
    LET D == GetD(x, y, amp)
    IN  CurveD(x, y, amp) <= D /\ NotAbove(D - 1, x, y, amp, 4 * x * y + 2 * x * D)
=============================================================================
