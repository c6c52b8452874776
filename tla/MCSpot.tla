------------------------------- MODULE MCSpot -------------------------------
(***************************************************************************)
(* Instance of the spot module: a balancer pool with and one without fees, *)
(* and stableswap pools of low and higher amplification.                   *)
(***************************************************************************)
EXTENDS Spot, TLC

CONSTANTS nibi, nusd, usdc, atom

MCPoolParams ==
    {[type |-> "balancer", A |-> 0, swapFee |-> 10, exitFee |-> 10],
     [type |-> "balancer", A |-> 0, swapFee |-> 0, exitFee |-> 0],
     [type |-> "stableswap", A |-> 2, swapFee |-> 0, exitFee |-> 0]}

\* Pools of one coin to hundreds: on the first four GetD does not converge.
MCCurves == {[x |-> c[1], y |-> c[2], A |-> c[3]] :
                c \in {<<584, 1, 1>>, <<739, 1, 1>>, <<1192, 2, 1>>, <<1275, 1, 2>>,
                       <<1, 584, 1>>, <<1, 1, 1>>, <<60, 3, 2>>, <<3, 60, 50>>}}
MCPoolCreationFee == [d \in Denoms |-> IF d = nibi THEN 2 ELSE 0]
MCWhitelistedAsset == {nusd, usdc, nibi}

\* The traders are interchangeable.
MCSymmetry == Permutations(Traders)
=============================================================================
