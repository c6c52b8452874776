----------------------------- MODULE WirePerpV1 -----------------------------
(* The tables of the generated codec of perp v1, for ProtoWire: for every message
   M what its Unmarshal expects (M) and what its MarshalToSizedBuffer writes
   (MarshalM); a message without fields writes nothing. *)

\* event.pb.go
PositionChangedEvent ==
    [Pair |-> <<1, "custom">>, TraderAddress |-> <<2, "string">>,
     Margin |-> <<3, "message">>, PositionNotional |-> <<4, "custom">>,
     ExchangedSize |-> <<5, "custom">>, ExchangedNotional |-> <<6, "custom">>,
     TransactionFee |-> <<7, "message">>, PositionSize |-> <<8, "custom">>,
     RealizedPnl |-> <<9, "custom">>, UnrealizedPnlAfter |-> <<10, "custom">>,
     BadDebt |-> <<11, "message">>, MarkPrice |-> <<12, "custom">>,
     FundingPayment |-> <<13, "custom">>, BlockHeight |-> <<14, "varint">>,
     BlockTimeMs |-> <<15, "varint">>]
MarshalPositionChangedEvent ==
    <<<<10, "Pair", "custom">>, <<18, "TraderAddress", "string">>,
      <<26, "Margin", "message">>, <<34, "PositionNotional", "custom">>,
      <<42, "ExchangedSize", "custom">>, <<50, "ExchangedNotional", "custom">>,
      <<58, "TransactionFee", "message">>, <<66, "PositionSize", "custom">>,
      <<74, "RealizedPnl", "custom">>, <<82, "UnrealizedPnlAfter", "custom">>,
      <<90, "BadDebt", "message">>, <<98, "MarkPrice", "custom">>,
      <<106, "FundingPayment", "custom">>, <<112, "BlockHeight", "varint">>,
      <<120, "BlockTimeMs", "varint">>>>
PositionLiquidatedEvent ==
    [Pair |-> <<1, "custom">>, TraderAddress |-> <<2, "string">>,
     ExchangedQuoteAmount |-> <<3, "custom">>,
     ExchangedPositionSize |-> <<4, "custom">>, LiquidatorAddress |-> <<5, "string">>,
     FeeToLiquidator |-> <<6, "message">>, FeeToEcosystemFund |-> <<7, "message">>,
     BadDebt |-> <<8, "message">>, Margin |-> <<9, "message">>,
     PositionNotional |-> <<10, "custom">>, PositionSize |-> <<11, "custom">>,
     UnrealizedPnl |-> <<12, "custom">>, MarkPrice |-> <<13, "custom">>,
     BlockHeight |-> <<14, "varint">>, BlockTimeMs |-> <<15, "varint">>]
MarshalPositionLiquidatedEvent ==
    <<<<10, "Pair", "custom">>, <<18, "TraderAddress", "string">>,
      <<26, "ExchangedQuoteAmount", "custom">>,
      <<34, "ExchangedPositionSize", "custom">>, <<42, "LiquidatorAddress", "string">>,
      <<50, "FeeToLiquidator", "message">>, <<58, "FeeToEcosystemFund", "message">>,
      <<66, "BadDebt", "message">>, <<74, "Margin", "message">>,
      <<82, "PositionNotional", "custom">>, <<90, "PositionSize", "custom">>,
      <<98, "UnrealizedPnl", "custom">>, <<106, "MarkPrice", "custom">>,
      <<112, "BlockHeight", "varint">>, <<120, "BlockTimeMs", "varint">>>>
PositionSettledEvent ==
    [Pair |-> <<1, "custom">>, TraderAddress |-> <<2, "string">>,
     SettledCoins |-> <<3, "messages">>]
MarshalPositionSettledEvent ==
    <<<<10, "Pair", "custom">>, <<18, "TraderAddress", "string">>,
      <<26, "SettledCoins", "messages">>>>
FundingRateChangedEvent ==
    [Pair |-> <<1, "custom">>, MarkPrice |-> <<2, "custom">>,
     IndexPrice |-> <<3, "custom">>, LatestFundingRate |-> <<4, "custom">>,
     LatestPremiumFraction |-> <<5, "custom">>,
     CumulativePremiumFraction |-> <<6, "custom">>, BlockHeight |-> <<7, "varint">>,
     BlockTimeMs |-> <<8, "varint">>]
MarshalFundingRateChangedEvent ==
    <<<<10, "Pair", "custom">>, <<18, "MarkPrice", "custom">>,
      <<26, "IndexPrice", "custom">>, <<34, "LatestFundingRate", "custom">>,
      <<42, "LatestPremiumFraction", "custom">>,
      <<50, "CumulativePremiumFraction", "custom">>, <<56, "BlockHeight", "varint">>,
      <<64, "BlockTimeMs", "varint">>>>
LiquidationFailedEvent ==
    [Pair |-> <<1, "custom">>, Trader |-> <<2, "string">>,
     Liquidator |-> <<3, "string">>, Reason |-> <<4, "enum">>]
MarshalLiquidationFailedEvent ==
    <<<<10, "Pair", "custom">>, <<18, "Trader", "string">>,
      <<26, "Liquidator", "string">>, <<32, "Reason", "enum">>>>
MetricsEvent ==
    [Pair |-> <<1, "custom">>, NetSize |-> <<2, "custom">>,
     VolumeQuote |-> <<3, "custom">>, VolumeBase |-> <<4, "custom">>,
     BlockHeight |-> <<5, "varint">>, BlockTimeMs |-> <<6, "varint">>]
MarshalMetricsEvent ==
    <<<<10, "Pair", "custom">>, <<18, "NetSize", "custom">>,
      <<26, "VolumeQuote", "custom">>, <<34, "VolumeBase", "custom">>,
      <<40, "BlockHeight", "varint">>, <<48, "BlockTimeMs", "varint">>>>
PegMultiplierUpdate ==
    [Pair |-> <<1, "custom">>, NewPeg |-> <<2, "custom">>, Cost |-> <<3, "custom">>]
MarshalPegMultiplierUpdate ==
    <<<<10, "Pair", "custom">>, <<18, "NewPeg", "custom">>, <<26, "Cost", "custom">>>>
SwapInvariantUpdate ==
    [Pair |-> <<1, "custom">>, NewSwapInvariant |-> <<2, "custom">>,
     SwapInvariantMultiplier |-> <<3, "custom">>, Cost |-> <<4, "custom">>]
MarshalSwapInvariantUpdate ==
    <<<<10, "Pair", "custom">>, <<18, "NewSwapInvariant", "custom">>,
      <<26, "SwapInvariantMultiplier", "custom">>, <<34, "Cost", "custom">>>>

\* genesis.pb.go
GenesisState ==
    [Params |-> <<1, "message">>, PairMetadata |-> <<2, "messages">>,
     Positions |-> <<3, "messages">>, PrepaidBadDebts |-> <<4, "messages">>]
MarshalGenesisState ==
    <<<<10, "Params", "message">>, <<18, "PairMetadata", "messages">>,
      <<26, "Positions", "messages">>, <<34, "PrepaidBadDebts", "messages">>>>

\* query.pb.go
QueryParamsRequest == <<>>
QueryParamsResponse ==
    [Params |-> <<1, "message">>]
MarshalQueryParamsResponse ==
    <<<<10, "Params", "message">>>>
QueryPositionsRequest ==
    [Trader |-> <<1, "string">>]
MarshalQueryPositionsRequest ==
    <<<<10, "Trader", "string">>>>
QueryPositionsResponse ==
    [Positions |-> <<1, "messages">>]
MarshalQueryPositionsResponse ==
    <<<<10, "Positions", "messages">>>>
QueryPositionRequest ==
    [Pair |-> <<1, "custom">>, Trader |-> <<2, "string">>]
MarshalQueryPositionRequest ==
    <<<<10, "Pair", "custom">>, <<18, "Trader", "string">>>>
QueryPositionResponse ==
    [Position |-> <<1, "pointer">>, PositionNotional |-> <<2, "custom">>,
     UnrealizedPnl |-> <<3, "custom">>, MarginRatioMark |-> <<4, "custom">>,
     MarginRatioIndex |-> <<5, "custom">>, BlockNumber |-> <<7, "varint">>]
MarshalQueryPositionResponse ==
    <<<<10, "Position", "pointer">>, <<18, "PositionNotional", "custom">>,
      <<26, "UnrealizedPnl", "custom">>, <<34, "MarginRatioMark", "custom">>,
      <<42, "MarginRatioIndex", "custom">>, <<56, "BlockNumber", "varint">>>>
QueryCumulativePremiumFractionRequest ==
    [Pair |-> <<1, "custom">>]
MarshalQueryCumulativePremiumFractionRequest ==
    <<<<10, "Pair", "custom">>>>
QueryCumulativePremiumFractionResponse ==
    [CumulativePremiumFraction |-> <<1, "custom">>,
     EstimatedNextCumulativePremiumFraction |-> <<2, "custom">>]
MarshalQueryCumulativePremiumFractionResponse ==
    <<<<10, "CumulativePremiumFraction", "custom">>,
      <<18, "EstimatedNextCumulativePremiumFraction", "custom">>>>
QueryMetricsRequest ==
    [Pair |-> <<1, "custom">>]
MarshalQueryMetricsRequest ==
    <<<<10, "Pair", "custom">>>>
QueryMetricsResponse ==
    [Metrics |-> <<1, "message">>]
MarshalQueryMetricsResponse ==
    <<<<10, "Metrics", "message">>>>
QueryModuleAccountsRequest == <<>>
QueryModuleAccountsResponse ==
    [Accounts |-> <<1, "messages">>]
MarshalQueryModuleAccountsResponse ==
    <<<<10, "Accounts", "messages">>>>
AccountWithBalance ==
    [Name |-> <<1, "string">>, Address |-> <<2, "string">>,
     Balance |-> <<3, "messages">>]
MarshalAccountWithBalance ==
    <<<<10, "Name", "string">>, <<18, "Address", "string">>,
      <<26, "Balance", "messages">>>>

\* state.pb.go
Params ==
    [Stopped |-> <<1, "bool">>, FeePoolFeeRatio |-> <<3, "custom">>,
     EcosystemFundFeeRatio |-> <<4, "custom">>,
     LiquidationFeeRatio |-> <<5, "custom">>,
     PartialLiquidationRatio |-> <<6, "custom">>,
     FundingRateInterval |-> <<7, "string">>, TwapLookbackWindow |-> <<8, "duration">>,
     WhitelistedLiquidators |-> <<9, "strings">>]
MarshalParams ==
    <<<<8, "Stopped", "bool">>, <<26, "FeePoolFeeRatio", "custom">>,
      <<34, "EcosystemFundFeeRatio", "custom">>,
      <<42, "LiquidationFeeRatio", "custom">>,
      <<50, "PartialLiquidationRatio", "custom">>,
      <<58, "FundingRateInterval", "string">>,
      <<66, "TwapLookbackWindow", "duration">>,
      <<74, "WhitelistedLiquidators", "strings">>>>
Position ==
    [TraderAddress |-> <<1, "string">>, Pair |-> <<2, "custom">>,
     Size_ |-> <<3, "custom">>, Margin |-> <<4, "custom">>,
     OpenNotional |-> <<5, "custom">>,
     LatestCumulativePremiumFraction |-> <<6, "custom">>,
     BlockNumber |-> <<7, "varint">>]
MarshalPosition ==
    <<<<10, "TraderAddress", "string">>, <<18, "Pair", "custom">>,
      <<26, "Size_", "custom">>, <<34, "Margin", "custom">>,
      <<42, "OpenNotional", "custom">>,
      <<50, "LatestCumulativePremiumFraction", "custom">>,
      <<56, "BlockNumber", "varint">>>>
PairMetadata ==
    [Pair |-> <<1, "custom">>, LatestCumulativePremiumFraction |-> <<2, "custom">>]
MarshalPairMetadata ==
    <<<<10, "Pair", "custom">>, <<18, "LatestCumulativePremiumFraction", "custom">>>>
PrepaidBadDebt ==
    [Denom |-> <<1, "string">>, Amount |-> <<2, "custom">>]
MarshalPrepaidBadDebt ==
    <<<<10, "Denom", "string">>, <<18, "Amount", "custom">>>>
Metrics ==
    [Pair |-> <<1, "custom">>, NetSize |-> <<2, "custom">>,
     VolumeQuote |-> <<3, "custom">>, VolumeBase |-> <<4, "custom">>]
MarshalMetrics ==
    <<<<10, "Pair", "custom">>, <<18, "NetSize", "custom">>,
      <<26, "VolumeQuote", "custom">>, <<34, "VolumeBase", "custom">>>>

\* tx.pb.go
MsgRemoveMargin ==
    [Sender |-> <<1, "string">>, Pair |-> <<2, "custom">>, Margin |-> <<3, "message">>]
MarshalMsgRemoveMargin ==
    <<<<10, "Sender", "string">>, <<18, "Pair", "custom">>,
      <<26, "Margin", "message">>>>
MsgRemoveMarginResponse ==
    [MarginOut |-> <<1, "message">>, FundingPayment |-> <<2, "custom">>,
     Position |-> <<3, "pointer">>]
MarshalMsgRemoveMarginResponse ==
    <<<<10, "MarginOut", "message">>, <<18, "FundingPayment", "custom">>,
      <<26, "Position", "pointer">>>>
MsgAddMargin ==
    [Sender |-> <<1, "string">>, Pair |-> <<2, "custom">>, Margin |-> <<3, "message">>]
MarshalMsgAddMargin ==
    <<<<10, "Sender", "string">>, <<18, "Pair", "custom">>,
      <<26, "Margin", "message">>>>
MsgAddMarginResponse ==
    [FundingPayment |-> <<1, "custom">>, Position |-> <<2, "pointer">>]
MarshalMsgAddMarginResponse ==
    <<<<10, "FundingPayment", "custom">>, <<18, "Position", "pointer">>>>
MsgMultiLiquidate ==
    [Sender |-> <<1, "string">>, Liquidations |-> <<2, "messages">>]
MarshalMsgMultiLiquidate ==
    <<<<10, "Sender", "string">>, <<18, "Liquidations", "messages">>>>
MsgMultiLiquidate_Liquidation ==
    [Pair |-> <<1, "custom">>, Trader |-> <<2, "string">>]
MarshalMsgMultiLiquidate_Liquidation ==
    <<<<10, "Pair", "custom">>, <<18, "Trader", "string">>>>
MsgMultiLiquidateResponse ==
    [Liquidations |-> <<1, "messages">>]
MarshalMsgMultiLiquidateResponse ==
    <<<<10, "Liquidations", "messages">>>>
MsgMultiLiquidateResponse_LiquidationResponse ==
    [Success |-> <<1, "bool">>, Error |-> <<2, "string">>,
     LiquidatorFee |-> <<3, "message">>, PerpEfFee |-> <<4, "message">>]
MarshalMsgMultiLiquidateResponse_LiquidationResponse ==
    <<<<8, "Success", "bool">>, <<18, "Error", "string">>,
      <<26, "LiquidatorFee", "message">>, <<34, "PerpEfFee", "message">>>>
MsgOpenPosition ==
    [Sender |-> <<1, "string">>, Pair |-> <<2, "custom">>, Side |-> <<3, "enum">>,
     QuoteAssetAmount |-> <<4, "custom">>, Leverage |-> <<5, "custom">>,
     BaseAssetAmountLimit |-> <<6, "custom">>]
MarshalMsgOpenPosition ==
    <<<<10, "Sender", "string">>, <<18, "Pair", "custom">>, <<24, "Side", "enum">>,
      <<34, "QuoteAssetAmount", "custom">>, <<42, "Leverage", "custom">>,
      <<50, "BaseAssetAmountLimit", "custom">>>>
MsgOpenPositionResponse ==
    [Position |-> <<1, "pointer">>, ExchangedNotionalValue |-> <<2, "custom">>,
     ExchangedPositionSize |-> <<3, "custom">>, FundingPayment |-> <<4, "custom">>,
     RealizedPnl |-> <<5, "custom">>, UnrealizedPnlAfter |-> <<6, "custom">>,
     MarginToVault |-> <<7, "custom">>, PositionNotional |-> <<8, "custom">>]
MarshalMsgOpenPositionResponse ==
    <<<<10, "Position", "pointer">>, <<18, "ExchangedNotionalValue", "custom">>,
      <<26, "ExchangedPositionSize", "custom">>, <<34, "FundingPayment", "custom">>,
      <<42, "RealizedPnl", "custom">>, <<50, "UnrealizedPnlAfter", "custom">>,
      <<58, "MarginToVault", "custom">>, <<66, "PositionNotional", "custom">>>>
MsgClosePosition ==
    [Sender |-> <<1, "string">>, Pair |-> <<2, "custom">>]
MarshalMsgClosePosition ==
    <<<<10, "Sender", "string">>, <<18, "Pair", "custom">>>>
MsgClosePositionResponse ==
    [ExchangedNotionalValue |-> <<1, "custom">>,
     ExchangedPositionSize |-> <<2, "custom">>, FundingPayment |-> <<3, "custom">>,
     RealizedPnl |-> <<4, "custom">>, MarginToTrader |-> <<7, "custom">>]
MarshalMsgClosePositionResponse ==
    <<<<10, "ExchangedNotionalValue", "custom">>,
      <<18, "ExchangedPositionSize", "custom">>, <<26, "FundingPayment", "custom">>,
      <<34, "RealizedPnl", "custom">>, <<58, "MarginToTrader", "custom">>>>
MsgDonateToEcosystemFund ==
    [Sender |-> <<1, "string">>, Donation |-> <<2, "message">>]
MarshalMsgDonateToEcosystemFund ==
    <<<<10, "Sender", "string">>, <<18, "Donation", "message">>>>
MsgDonateToEcosystemFundResponse == <<>>

Unmarshals ==
    [PositionChangedEvent |-> PositionChangedEvent,
     PositionLiquidatedEvent |-> PositionLiquidatedEvent,
     PositionSettledEvent |-> PositionSettledEvent,
     FundingRateChangedEvent |-> FundingRateChangedEvent,
     LiquidationFailedEvent |-> LiquidationFailedEvent, MetricsEvent |-> MetricsEvent,
     PegMultiplierUpdate |-> PegMultiplierUpdate,
     SwapInvariantUpdate |-> SwapInvariantUpdate, GenesisState |-> GenesisState,
     QueryParamsRequest |-> QueryParamsRequest,
     QueryParamsResponse |-> QueryParamsResponse,
     QueryPositionsRequest |-> QueryPositionsRequest,
     QueryPositionsResponse |-> QueryPositionsResponse,
     QueryPositionRequest |-> QueryPositionRequest,
     QueryPositionResponse |-> QueryPositionResponse,
     QueryCumulativePremiumFractionRequest |-> QueryCumulativePremiumFractionRequest,
     QueryCumulativePremiumFractionResponse |-> QueryCumulativePremiumFractionResponse,
     QueryMetricsRequest |-> QueryMetricsRequest,
     QueryMetricsResponse |-> QueryMetricsResponse,
     QueryModuleAccountsRequest |-> QueryModuleAccountsRequest,
     QueryModuleAccountsResponse |-> QueryModuleAccountsResponse,
     AccountWithBalance |-> AccountWithBalance, Params |-> Params,
     Position |-> Position, PairMetadata |-> PairMetadata,
     PrepaidBadDebt |-> PrepaidBadDebt, Metrics |-> Metrics,
     MsgRemoveMargin |-> MsgRemoveMargin,
     MsgRemoveMarginResponse |-> MsgRemoveMarginResponse,
     MsgAddMargin |-> MsgAddMargin, MsgAddMarginResponse |-> MsgAddMarginResponse,
     MsgMultiLiquidate |-> MsgMultiLiquidate,
     MsgMultiLiquidate_Liquidation |-> MsgMultiLiquidate_Liquidation,
     MsgMultiLiquidateResponse |-> MsgMultiLiquidateResponse,
     MsgMultiLiquidateResponse_LiquidationResponse |-> MsgMultiLiquidateResponse_LiquidationResponse,
     MsgOpenPosition |-> MsgOpenPosition,
     MsgOpenPositionResponse |-> MsgOpenPositionResponse,
     MsgClosePosition |-> MsgClosePosition,
     MsgClosePositionResponse |-> MsgClosePositionResponse,
     MsgDonateToEcosystemFund |-> MsgDonateToEcosystemFund,
     MsgDonateToEcosystemFundResponse |-> MsgDonateToEcosystemFundResponse]
Marshals ==
    [PositionChangedEvent |-> MarshalPositionChangedEvent,
     PositionLiquidatedEvent |-> MarshalPositionLiquidatedEvent,
     PositionSettledEvent |-> MarshalPositionSettledEvent,
     FundingRateChangedEvent |-> MarshalFundingRateChangedEvent,
     LiquidationFailedEvent |-> MarshalLiquidationFailedEvent,
     MetricsEvent |-> MarshalMetricsEvent,
     PegMultiplierUpdate |-> MarshalPegMultiplierUpdate,
     SwapInvariantUpdate |-> MarshalSwapInvariantUpdate,
     GenesisState |-> MarshalGenesisState, QueryParamsRequest |-> <<>>,
     QueryParamsResponse |-> MarshalQueryParamsResponse,
     QueryPositionsRequest |-> MarshalQueryPositionsRequest,
     QueryPositionsResponse |-> MarshalQueryPositionsResponse,
     QueryPositionRequest |-> MarshalQueryPositionRequest,
     QueryPositionResponse |-> MarshalQueryPositionResponse,
     QueryCumulativePremiumFractionRequest |-> MarshalQueryCumulativePremiumFractionRequest,
     QueryCumulativePremiumFractionResponse |-> MarshalQueryCumulativePremiumFractionResponse,
     QueryMetricsRequest |-> MarshalQueryMetricsRequest,
     QueryMetricsResponse |-> MarshalQueryMetricsResponse,
     QueryModuleAccountsRequest |-> <<>>,
     QueryModuleAccountsResponse |-> MarshalQueryModuleAccountsResponse,
     AccountWithBalance |-> MarshalAccountWithBalance, Params |-> MarshalParams,
     Position |-> MarshalPosition, PairMetadata |-> MarshalPairMetadata,
     PrepaidBadDebt |-> MarshalPrepaidBadDebt, Metrics |-> MarshalMetrics,
     MsgRemoveMargin |-> MarshalMsgRemoveMargin,
     MsgRemoveMarginResponse |-> MarshalMsgRemoveMarginResponse,
     MsgAddMargin |-> MarshalMsgAddMargin,
     MsgAddMarginResponse |-> MarshalMsgAddMarginResponse,
     MsgMultiLiquidate |-> MarshalMsgMultiLiquidate,
     MsgMultiLiquidate_Liquidation |-> MarshalMsgMultiLiquidate_Liquidation,
     MsgMultiLiquidateResponse |-> MarshalMsgMultiLiquidateResponse,
     MsgMultiLiquidateResponse_LiquidationResponse |-> MarshalMsgMultiLiquidateResponse_LiquidationResponse,
     MsgOpenPosition |-> MarshalMsgOpenPosition,
     MsgOpenPositionResponse |-> MarshalMsgOpenPositionResponse,
     MsgClosePosition |-> MarshalMsgClosePosition,
     MsgClosePositionResponse |-> MarshalMsgClosePositionResponse,
     MsgDonateToEcosystemFund |-> MarshalMsgDonateToEcosystemFund,
     MsgDonateToEcosystemFundResponse |-> <<>>]
=============================================================================
