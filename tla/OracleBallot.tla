---------------------------- MODULE OracleBallot ----------------------------
(***************************************************************************)
(* Counting one ballot of the price oracle (x/oracle/types/ballot.go and   *)
(* x/oracle/keeper/ballot.go).  A ballot on a pair is a function from the  *)
(* validators that voted on it to their rate, an sdk.Dec, and the power it *)
(* was given.  A rate that is not positive is an abstention.               *)
(*                                                                         *)
(* The code sorts the ballot by rate and walks it.  What the walk returns  *)
(* depends on the order of equal rates in nothing, so the definitions      *)
(* quantify over rates instead.                                            *)
(***************************************************************************)
EXTENDS SdkDec, FiniteSetsExt

CONSTANT FloatScale   \* 10^6: the digits that Sprintf("%f") keeps

ASSUME FloatAssumption == FloatScale \in Nat \ {0} /\ Scale % FloatScale = 0

Powers(b) == [v \in DOMAIN b |-> b[v].power]
PowerOf(b, voters) == SumFunctionOnSet(Powers(b), voters)
BallotPower(b) == PowerOf(b, DOMAIN b)

Abstains(b, v) == b[v].rate <= 0
NumValidVoters(b) == Cardinality({v \in DOMAIN b : ~ Abstains(b, v)})

\* Mutant: the minimum number of voters is not asked for.
IsPassingAnyVoters(b, threshold, minVoters) ==
    BallotPower(b) # 0 /\ BallotPower(b) >= threshold
IsPassingVoteThreshold(b, threshold, minVoters) ==
    /\ BallotPower(b) # 0
    /\ BallotPower(b) >= threshold
    /\ NumValidVoters(b) >= minVoters

Rates(b) == {b[v].rate : v \in DOMAIN b}
PowerUpTo(b, r) == PowerOf(b, {v \in DOMAIN b : b[v].rate <= r})

\* Mutant: every vote counts one.
UnweightedMedian(b) ==
    Min({r \in Rates(b) :
            2 * Cardinality({v \in DOMAIN b : b[v].rate <= r}) >= Cardinality(DOMAIN b)})
\* The first rate at which the walk has half of the power, of a ballot that is
\* not empty.
WeightedMedian(b) == Min({r \in Rates(b) : PowerUpTo(b, r) >= BallotPower(b) \div 2})

\* The root is taken of a float and printed with the digits of FloatScale.
RoundSqrt(d) ==
    ((ISqrt((4 * d * FloatScale * FloatScale) \div Scale) + 1) \div 2)
        * (Scale \div FloatScale)
SquaredDeviations(b, median) ==
    [v \in DOMAIN b |-> Mul(b[v].rate - median, b[v].rate - median)]
StandardDeviation(b, median) ==
    RoundSqrt(QuoInt(SumFunction(SquaredDeviations(b, median)), Cardinality(DOMAIN b)))

RewardSpread(b, median, rewardBand) ==
    MaxDec(Mul(median, QuoInt(rewardBand, 2)), StandardDeviation(b, median))

\* The voters whose count Tally increases.
Winners(b, rewardBand) ==
    LET median == WeightedMedian(b)
        spread == RewardSpread(b, median, rewardBand)
    IN  {v \in DOMAIN b :
            \/ median - spread <= b[v].rate /\ b[v].rate <= median + spread
            \/ Abstains(b, v)}
=============================================================================
