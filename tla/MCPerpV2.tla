------------------------------ MODULE MCPerpV2 ------------------------------
(* Instances of PerpV2 for TLC: decimals have two digits. *)
EXTENDS PerpV2, FiniteSets

\* Reserves of 20.00 each.
MCAmm == [base |-> 2000, quote |-> 2000, sqrtDepth |-> 2000, peg |-> 100,
          totalLong |-> 0, totalShort |-> 0]
MCGenesisAmm == [p \in Pairs |-> MCAmm]

MCParams == [p \in Pairs |->
    [maintenance |-> 6, maxLeverage |-> 1000, exchangeFee |-> 5, efFee |-> 5,
     liquidationFee |-> 5, partial |-> 50, fluctuation |-> 0, lookback |-> 2,
     epochId |-> 1]]
\* A wider range of margin ratios in which a position is liquidated in part.
MCParamsWide == [p \in Pairs |-> [MCParams[p] EXCEPT !.maintenance = 16,
                                                    !.maxLeverage = 500]]
\* A liquidation fee large enough that a liquidator earns whole coins.
MCParamsHighFee == [p \in Pairs |-> [MCParams[p] EXCEPT !.liquidationFee = 25]]
\* The same, with a limit on how far one block may move the price.
MCParamsTight == [p \in Pairs |-> [MCParamsHighFee[p] EXCEPT !.fluctuation = 80]]
\* The markets differ: a liquidation in part takes all of a position of the first;
\* the second has the large fee and the limit.
MCParamsMixed == [p \in Pairs |-> IF p = 1 THEN [MCParams[p] EXCEPT !.partial = 100]
                                 ELSE MCParamsTight[p]]
\* An exported genesis: the pool stood lower before the chain restarted.
MCSnapshots == [p \in Pairs |->
    <<[ts |-> -2, amm |-> [MCAmm EXCEPT !.quote = 1600, !.base = 2500]],
      [ts |-> 0, amm |-> MCAmm]>>]

MCBank == [a \in Accounts |-> IF a \in Traders THEN 10 ELSE IF a = PerpEF THEN 20 ELSE 0]
MCIntervals == <<2>>
MCDaily == <<1>>
MCLiquidators == {1}

-----------------------------------------------------------------------------
(* CalcTwap against its definition, on every sequence of snapshots a genesis *)
(* may hold with these times and reserves, at these block times.             *)
TwapTimes == {-3, -2, 0, 1, 3}
TwapQuotes == {100, 250, 301}
TwapBlocks == 0..4
TwapLookbacks == {0, 1, 2, 3, 5}

\* The snapshots at the times T, oldest first.
Sorted(T, quote) ==
    [i \in 1..Cardinality(T) |->
        LET ts == CHOOSE t \in T : Cardinality({u \in T : u < t}) = i - 1
        IN  [ts |-> ts,
             amm |-> [base |-> 300, quote |-> quote[ts], sqrtDepth |-> 300,
                      peg |-> 200, totalLong |-> 0, totalShort |-> 0]]]

TwapSnapshots ==
    UNION {{Sorted(T, quote) : quote \in [T -> TwapQuotes]} : T \in SUBSET TwapTimes}
MCTwapInputs == TwapSnapshots \X TwapBlocks \X TwapLookbacks
=============================================================================
