--------------------------- MODULE WireInflation ----------------------------
(* The tables of the generated codec of inflation, for ProtoWire: for every message
   M what its Unmarshal expects (M) and what its MarshalToSizedBuffer writes
   (MarshalM); a message without fields writes nothing. *)

\* genesis.pb.go
GenesisState ==
    [Params |-> <<1, "message">>, Period |-> <<2, "varint">>,
     SkippedEpochs |-> <<3, "varint">>]
MarshalGenesisState ==
    <<<<10, "Params", "message">>, <<16, "Period", "varint">>,
      <<24, "SkippedEpochs", "varint">>>>
Params ==
    [InflationEnabled |-> <<1, "bool">>, ExponentialCalculation |-> <<2, "message">>,
     InflationDistribution |-> <<3, "message">>, EpochsPerPeriod |-> <<4, "varint">>]
MarshalParams ==
    <<<<8, "InflationEnabled", "bool">>, <<18, "ExponentialCalculation", "message">>,
      <<26, "InflationDistribution", "message">>, <<32, "EpochsPerPeriod", "varint">>>>

\* inflation.pb.go
InflationDistribution ==
    [StakingRewards |-> <<1, "custom">>, CommunityPool |-> <<2, "custom">>,
     StrategicReserves |-> <<3, "custom">>]
MarshalInflationDistribution ==
    <<<<10, "StakingRewards", "custom">>, <<18, "CommunityPool", "custom">>,
      <<26, "StrategicReserves", "custom">>>>
ExponentialCalculation ==
    [A |-> <<1, "custom">>, R |-> <<2, "custom">>, C |-> <<3, "custom">>]
MarshalExponentialCalculation ==
    <<<<10, "A", "custom">>, <<18, "R", "custom">>, <<26, "C", "custom">>>>

\* query.pb.go
QueryPeriodRequest == <<>>
QueryPeriodResponse ==
    [Period |-> <<1, "varint">>]
MarshalQueryPeriodResponse ==
    <<<<8, "Period", "varint">>>>
QueryEpochMintProvisionRequest == <<>>
QueryEpochMintProvisionResponse ==
    [EpochMintProvision |-> <<1, "message">>]
MarshalQueryEpochMintProvisionResponse ==
    <<<<10, "EpochMintProvision", "message">>>>
QuerySkippedEpochsRequest == <<>>
QuerySkippedEpochsResponse ==
    [SkippedEpochs |-> <<1, "varint">>]
MarshalQuerySkippedEpochsResponse ==
    <<<<8, "SkippedEpochs", "varint">>>>
QueryCirculatingSupplyRequest == <<>>
QueryCirculatingSupplyResponse ==
    [CirculatingSupply |-> <<1, "message">>]
MarshalQueryCirculatingSupplyResponse ==
    <<<<10, "CirculatingSupply", "message">>>>
QueryInflationRateRequest == <<>>
QueryInflationRateResponse ==
    [InflationRate |-> <<1, "custom">>]
MarshalQueryInflationRateResponse ==
    <<<<10, "InflationRate", "custom">>>>
QueryParamsRequest == <<>>
QueryParamsResponse ==
    [Params |-> <<1, "message">>]
MarshalQueryParamsResponse ==
    <<<<10, "Params", "message">>>>

Unmarshals ==
    [GenesisState |-> GenesisState, Params |-> Params,
     InflationDistribution |-> InflationDistribution,
     ExponentialCalculation |-> ExponentialCalculation,
     QueryPeriodRequest |-> QueryPeriodRequest,
     QueryPeriodResponse |-> QueryPeriodResponse,
     QueryEpochMintProvisionRequest |-> QueryEpochMintProvisionRequest,
     QueryEpochMintProvisionResponse |-> QueryEpochMintProvisionResponse,
     QuerySkippedEpochsRequest |-> QuerySkippedEpochsRequest,
     QuerySkippedEpochsResponse |-> QuerySkippedEpochsResponse,
     QueryCirculatingSupplyRequest |-> QueryCirculatingSupplyRequest,
     QueryCirculatingSupplyResponse |-> QueryCirculatingSupplyResponse,
     QueryInflationRateRequest |-> QueryInflationRateRequest,
     QueryInflationRateResponse |-> QueryInflationRateResponse,
     QueryParamsRequest |-> QueryParamsRequest,
     QueryParamsResponse |-> QueryParamsResponse]
Marshals ==
    [GenesisState |-> MarshalGenesisState, Params |-> MarshalParams,
     InflationDistribution |-> MarshalInflationDistribution,
     ExponentialCalculation |-> MarshalExponentialCalculation,
     QueryPeriodRequest |-> <<>>, QueryPeriodResponse |-> MarshalQueryPeriodResponse,
     QueryEpochMintProvisionRequest |-> <<>>,
     QueryEpochMintProvisionResponse |-> MarshalQueryEpochMintProvisionResponse,
     QuerySkippedEpochsRequest |-> <<>>,
     QuerySkippedEpochsResponse |-> MarshalQuerySkippedEpochsResponse,
     QueryCirculatingSupplyRequest |-> <<>>,
     QueryCirculatingSupplyResponse |-> MarshalQueryCirculatingSupplyResponse,
     QueryInflationRateRequest |-> <<>>,
     QueryInflationRateResponse |-> MarshalQueryInflationRateResponse,
     QueryParamsRequest |-> <<>>, QueryParamsResponse |-> MarshalQueryParamsResponse]
=============================================================================
