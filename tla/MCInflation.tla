---------------------------- MODULE MCInflation -----------------------------
(* An instance of Inflation for TLC: a day clock and one that starts later. *)
EXTENDS Inflation

Clock(start, duration) ==
    [start |-> start, duration |-> duration, number |-> 0, began |-> 0,
     height |-> 0, counting |-> FALSE]
MCGenesisEpochs == <<Clock(Unset, 2), Clock(3, 3)>>

Calculation(a, r, c) == [a |-> a, r |-> r, c |-> c]
Distribution(staking, community, reserves) ==
    [stakingRewards |-> staking, communityPool |-> community, strategicReserves |-> reserves]
MCGenesisCalculation == Calculation(200, 80, 80)
MCGenesisDistribution == Distribution(27, 62, 11)
\* Without the long-term part the provision of period 1 is below a coin.
NoLongTerm == Calculation(200, 80, 0)
MostToReserve == Distribution(0, 33, 67)
MCCalculations == {MCGenesisCalculation, NoLongTerm}
MCDistributions == {MCGenesisDistribution, MostToReserve}
MCProposals ==
    {<<q[1], q[2], MCGenesisCalculation, MCGenesisDistribution>> :
        q \in {<<FALSE, 2>>, <<TRUE, 0>>, <<TRUE, 2>>, <<TRUE, 3>>}}
    \cup {<<TRUE, 2, NoLongTerm, MCGenesisDistribution>>,
          <<TRUE, 3, NoLongTerm, MostToReserve>>}
=============================================================================
