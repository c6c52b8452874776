--------------------------- MODULE WireStablecoin ---------------------------
(* The tables of the generated codec of stablecoin, for ProtoWire: for every message
   M what its Unmarshal expects (M) and what its MarshalToSizedBuffer writes
   (MarshalM); a message without fields writes nothing. *)

\* events.pb.go
EventTransfer ==
    [Coin |-> <<1, "message">>, From |-> <<2, "string">>, To |-> <<3, "string">>]
MarshalEventTransfer ==
    <<<<10, "Coin", "message">>, <<18, "From", "string">>, <<26, "To", "string">>>>
EventMintStable ==
    [Amount |-> <<1, "custom">>]
MarshalEventMintStable ==
    <<<<10, "Amount", "custom">>>>
EventBurnStable ==
    [Amount |-> <<1, "custom">>]
MarshalEventBurnStable ==
    <<<<10, "Amount", "custom">>>>
EventMintNIBI ==
    [Amount |-> <<1, "custom">>]
MarshalEventMintNIBI ==
    <<<<10, "Amount", "custom">>>>
EventBurnNIBI ==
    [Amount |-> <<1, "custom">>]
MarshalEventBurnNIBI ==
    <<<<10, "Amount", "custom">>>>
EventRecollateralize ==
    [Caller |-> <<1, "string">>, InCoin |-> <<2, "message">>,
     OutCoin |-> <<3, "message">>, CollRatio |-> <<4, "custom">>]
MarshalEventRecollateralize ==
    <<<<10, "Caller", "string">>, <<18, "InCoin", "message">>,
      <<26, "OutCoin", "message">>, <<34, "CollRatio", "custom">>>>
EventBuyback ==
    [Caller |-> <<1, "string">>, InCoin |-> <<2, "message">>,
     OutCoin |-> <<3, "message">>, CollRatio |-> <<4, "custom">>]
MarshalEventBuyback ==
    <<<<10, "Caller", "string">>, <<18, "InCoin", "message">>,
      <<26, "OutCoin", "message">>, <<34, "CollRatio", "custom">>>>

\* genesis.pb.go
GenesisState ==
    [Params |-> <<1, "message">>, ModuleAccountBalance |-> <<2, "message">>]
MarshalGenesisState ==
    <<<<10, "Params", "message">>, <<18, "ModuleAccountBalance", "message">>>>

\* params.pb.go
Params ==
    [CollRatio |-> <<1, "varint">>, FeeRatio |-> <<2, "varint">>,
     EfFeeRatio |-> <<3, "varint">>, BonusRateRecoll |-> <<4, "varint">>,
     DistrEpochIdentifier |-> <<5, "string">>, AdjustmentStep |-> <<6, "varint">>,
     PriceLowerBound |-> <<7, "varint">>, PriceUpperBound |-> <<8, "varint">>,
     IsCollateralRatioValid |-> <<9, "bool">>]
MarshalParams ==
    <<<<8, "CollRatio", "varint">>, <<16, "FeeRatio", "varint">>,
      <<24, "EfFeeRatio", "varint">>, <<32, "BonusRateRecoll", "varint">>,
      <<42, "DistrEpochIdentifier", "string">>, <<48, "AdjustmentStep", "varint">>,
      <<56, "PriceLowerBound", "varint">>, <<64, "PriceUpperBound", "varint">>,
      <<72, "IsCollateralRatioValid", "bool">>>>

\* query.pb.go
QueryParamsRequest == <<>>
QueryParamsResponse ==
    [Params |-> <<1, "message">>]
MarshalQueryParamsResponse ==
    <<<<10, "Params", "message">>>>
QueryModuleAccountBalances == <<>>
QueryModuleAccountBalancesResponse ==
    [ModuleAccountBalances |-> <<1, "messages">>]
MarshalQueryModuleAccountBalancesResponse ==
    <<<<10, "ModuleAccountBalances", "messages">>>>
QueryCirculatingSupplies == <<>>
QueryCirculatingSuppliesResponse ==
    [Nibi |-> <<1, "message">>, Nusd |-> <<2, "message">>]
MarshalQueryCirculatingSuppliesResponse ==
    <<<<10, "Nibi", "message">>, <<18, "Nusd", "message">>>>
QueryGovToMintStable ==
    [Collateral |-> <<1, "message">>]
MarshalQueryGovToMintStable ==
    <<<<10, "Collateral", "message">>>>
QueryGovToMintStableResponse ==
    [Gov |-> <<1, "message">>]
MarshalQueryGovToMintStableResponse ==
    <<<<10, "Gov", "message">>>>
LiquidityRatioInfo ==
    [LiquidityRatio |-> <<1, "custom">>, UpperBand |-> <<2, "custom">>,
     LowerBand |-> <<3, "custom">>]
MarshalLiquidityRatioInfo ==
    <<<<10, "LiquidityRatio", "custom">>, <<18, "UpperBand", "custom">>,
      <<26, "LowerBand", "custom">>>>
QueryLiquidityRatioInfoRequest == <<>>
QueryLiquidityRatioInfoResponse ==
    [Info |-> <<1, "message">>]
MarshalQueryLiquidityRatioInfoResponse ==
    <<<<10, "Info", "message">>>>

\* tx.pb.go
MsgMintStable ==
    [Creator |-> <<1, "string">>, Stable |-> <<2, "message">>]
MarshalMsgMintStable ==
    <<<<10, "Creator", "string">>, <<18, "Stable", "message">>>>
MsgMintStableResponse ==
    [Stable |-> <<1, "message">>, UsedCoins |-> <<2, "messages">>,
     FeesPayed |-> <<3, "messages">>]
MarshalMsgMintStableResponse ==
    <<<<10, "Stable", "message">>, <<18, "UsedCoins", "messages">>,
      <<26, "FeesPayed", "messages">>>>
MsgBurnStable ==
    [Creator |-> <<1, "string">>, Stable |-> <<2, "message">>]
MarshalMsgBurnStable ==
    <<<<10, "Creator", "string">>, <<18, "Stable", "message">>>>
MsgBurnStableResponse ==
    [Collateral |-> <<1, "message">>, Gov |-> <<2, "message">>,
     FeesPayed |-> <<3, "messages">>]
MarshalMsgBurnStableResponse ==
    <<<<10, "Collateral", "message">>, <<18, "Gov", "message">>,
      <<26, "FeesPayed", "messages">>>>
MsgRecollateralize ==
    [Creator |-> <<1, "string">>, Coll |-> <<2, "message">>]
MarshalMsgRecollateralize ==
    <<<<10, "Creator", "string">>, <<18, "Coll", "message">>>>
MsgRecollateralizeResponse ==
    [Gov |-> <<1, "message">>]
MarshalMsgRecollateralizeResponse ==
    <<<<10, "Gov", "message">>>>
MsgBuyback ==
    [Creator |-> <<1, "string">>, Gov |-> <<2, "message">>]
MarshalMsgBuyback ==
    <<<<10, "Creator", "string">>, <<18, "Gov", "message">>>>
MsgBuybackResponse ==
    [Coll |-> <<1, "message">>]
MarshalMsgBuybackResponse ==
    <<<<10, "Coll", "message">>>>

Unmarshals ==
    [EventTransfer |-> EventTransfer, EventMintStable |-> EventMintStable,
     EventBurnStable |-> EventBurnStable, EventMintNIBI |-> EventMintNIBI,
     EventBurnNIBI |-> EventBurnNIBI, EventRecollateralize |-> EventRecollateralize,
     EventBuyback |-> EventBuyback, GenesisState |-> GenesisState, Params |-> Params,
     QueryParamsRequest |-> QueryParamsRequest,
     QueryParamsResponse |-> QueryParamsResponse,
     QueryModuleAccountBalances |-> QueryModuleAccountBalances,
     QueryModuleAccountBalancesResponse |-> QueryModuleAccountBalancesResponse,
     QueryCirculatingSupplies |-> QueryCirculatingSupplies,
     QueryCirculatingSuppliesResponse |-> QueryCirculatingSuppliesResponse,
     QueryGovToMintStable |-> QueryGovToMintStable,
     QueryGovToMintStableResponse |-> QueryGovToMintStableResponse,
     LiquidityRatioInfo |-> LiquidityRatioInfo,
     QueryLiquidityRatioInfoRequest |-> QueryLiquidityRatioInfoRequest,
     QueryLiquidityRatioInfoResponse |-> QueryLiquidityRatioInfoResponse,
     MsgMintStable |-> MsgMintStable, MsgMintStableResponse |-> MsgMintStableResponse,
     MsgBurnStable |-> MsgBurnStable, MsgBurnStableResponse |-> MsgBurnStableResponse,
     MsgRecollateralize |-> MsgRecollateralize,
     MsgRecollateralizeResponse |-> MsgRecollateralizeResponse,
     MsgBuyback |-> MsgBuyback, MsgBuybackResponse |-> MsgBuybackResponse]
Marshals ==
    [EventTransfer |-> MarshalEventTransfer,
     EventMintStable |-> MarshalEventMintStable,
     EventBurnStable |-> MarshalEventBurnStable,
     EventMintNIBI |-> MarshalEventMintNIBI, EventBurnNIBI |-> MarshalEventBurnNIBI,
     EventRecollateralize |-> MarshalEventRecollateralize,
     EventBuyback |-> MarshalEventBuyback, GenesisState |-> MarshalGenesisState,
     Params |-> MarshalParams, QueryParamsRequest |-> <<>>,
     QueryParamsResponse |-> MarshalQueryParamsResponse,
     QueryModuleAccountBalances |-> <<>>,
     QueryModuleAccountBalancesResponse |-> MarshalQueryModuleAccountBalancesResponse,
     QueryCirculatingSupplies |-> <<>>,
     QueryCirculatingSuppliesResponse |-> MarshalQueryCirculatingSuppliesResponse,
     QueryGovToMintStable |-> MarshalQueryGovToMintStable,
     QueryGovToMintStableResponse |-> MarshalQueryGovToMintStableResponse,
     LiquidityRatioInfo |-> MarshalLiquidityRatioInfo,
     QueryLiquidityRatioInfoRequest |-> <<>>,
     QueryLiquidityRatioInfoResponse |-> MarshalQueryLiquidityRatioInfoResponse,
     MsgMintStable |-> MarshalMsgMintStable,
     MsgMintStableResponse |-> MarshalMsgMintStableResponse,
     MsgBurnStable |-> MarshalMsgBurnStable,
     MsgBurnStableResponse |-> MarshalMsgBurnStableResponse,
     MsgRecollateralize |-> MarshalMsgRecollateralize,
     MsgRecollateralizeResponse |-> MarshalMsgRecollateralizeResponse,
     MsgBuyback |-> MarshalMsgBuyback,
     MsgBuybackResponse |-> MarshalMsgBuybackResponse]
=============================================================================
