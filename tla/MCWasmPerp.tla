----------------------------- MODULE MCWasmPerp -----------------------------
(* An instance of WasmPerp for TLC: decimals have two digits. *)
EXTENDS WasmPerp

MCConfig == [maintenance |-> 12, maxLeverage |-> 500, tradeLimit |-> 90,
             fluctuation |-> 0, spread |-> 20]
MCTight == [MCConfig EXCEPT !.fluctuation = 100, !.tradeLimit = 50]
MCGenesisReserve == [p \in Pairs |-> 3000]
MCGenesisPeg == [p \in Pairs |-> One]
MCGenesisConfig == [p \in Pairs |-> MCConfig]
MCGenesisIndex == [p \in Pairs |-> One]
MCConfigs == {MCTight}
MCParams == [feePoolFee |-> 5, efFee |-> 5, liquidationFee |-> 10, partial |-> 50,
             lookback |-> 2, minQuote |-> 1, intervalsPerDay |-> 2]
MCContractLeverages == {-500}
MCContractMargins == {-1, 1}
MCBank == [a \in Accounts |-> IF a \in Traders THEN 10 ELSE IF a = PerpEF THEN 20 ELSE 0]
=============================================================================
