----------------------------- MODULE WirePerpV2 -----------------------------
(* The tables of the generated codec of perp v2, for ProtoWire: for every message
   M what its Unmarshal expects (M) and what its MarshalToSizedBuffer writes
   (MarshalM); a message without fields writes nothing. *)

\* event.pb.go
PositionChangedEvent ==
    [Pair |-> <<1, "custom">>, TraderAddress |-> <<2, "string">>,
     Margin |-> <<3, "message">>, PositionNotional |-> <<4, "custom">>,
     ExchangedSize |-> <<5, "custom">>, ExchangedNotional |-> <<6, "custom">>,
     TransactionFee |-> <<7, "message">>, PositionSize |-> <<8, "custom">>,
     RealizedPnl |-> <<9, "custom">>, UnrealizedPnlAfter |-> <<10, "custom">>,
     BadDebt |-> <<11, "message">>, FundingPayment |-> <<12, "custom">>,
     BlockHeight |-> <<13, "varint">>, BlockTimeMs |-> <<14, "varint">>]
MarshalPositionChangedEvent ==
    <<<<10, "Pair", "custom">>, <<18, "TraderAddress", "string">>,
      <<26, "Margin", "message">>, <<34, "PositionNotional", "custom">>,
      <<42, "ExchangedSize", "custom">>, <<50, "ExchangedNotional", "custom">>,
      <<58, "TransactionFee", "message">>, <<66, "PositionSize", "custom">>,
      <<74, "RealizedPnl", "custom">>, <<82, "UnrealizedPnlAfter", "custom">>,
      <<90, "BadDebt", "message">>, <<98, "FundingPayment", "custom">>,
      <<104, "BlockHeight", "varint">>, <<112, "BlockTimeMs", "varint">>>>
PositionLiquidatedEvent ==
    [Pair |-> <<1, "custom">>, TraderAddress |-> <<2, "string">>,
     ExchangedQuoteAmount |-> <<3, "custom">>,
     ExchangedPositionSize |-> <<4, "custom">>, LiquidatorAddress |-> <<5, "string">>,
     FeeToLiquidator |-> <<6, "message">>, FeeToEcosystemFund |-> <<7, "message">>,
     BadDebt |-> <<8, "message">>, Margin |-> <<9, "message">>,
     PositionNotional |-> <<10, "custom">>, PositionSize |-> <<11, "custom">>,
     UnrealizedPnl |-> <<12, "custom">>, MarkPrice |-> <<13, "custom">>,
     BlockHeight |-> <<14, "varint">>, BlockTimeMs |-> <<15, "varint">>]
MarshalPositionLiquidatedEvent ==
    <<<<10, "Pair", "custom">>, <<18, "TraderAddress", "string">>,
      <<26, "ExchangedQuoteAmount", "custom">>,
      <<34, "ExchangedPositionSize", "custom">>, <<42, "LiquidatorAddress", "string">>,
      <<50, "FeeToLiquidator", "message">>, <<58, "FeeToEcosystemFund", "message">>,
      <<66, "BadDebt", "message">>, <<74, "Margin", "message">>,
      <<82, "PositionNotional", "custom">>, <<90, "PositionSize", "custom">>,
      <<98, "UnrealizedPnl", "custom">>, <<106, "MarkPrice", "custom">>,
      <<112, "BlockHeight", "varint">>, <<120, "BlockTimeMs", "varint">>>>
PositionSettledEvent ==
    [Pair |-> <<1, "custom">>, TraderAddress |-> <<2, "string">>,
     SettledCoins |-> <<3, "messages">>]
MarshalPositionSettledEvent ==
    <<<<10, "Pair", "custom">>, <<18, "TraderAddress", "string">>,
      <<26, "SettledCoins", "messages">>>>
FundingRateChangedEvent ==
    [Pair |-> <<1, "custom">>, MarkPrice |-> <<2, "custom">>,
     IndexPrice |-> <<3, "custom">>, LatestFundingRate |-> <<4, "custom">>,
     LatestPremiumFraction |-> <<5, "custom">>,
     CumulativePremiumFraction |-> <<6, "custom">>, BlockHeight |-> <<7, "varint">>,
     BlockTimeMs |-> <<8, "varint">>]
MarshalFundingRateChangedEvent ==
    <<<<10, "Pair", "custom">>, <<18, "MarkPrice", "custom">>,
      <<26, "IndexPrice", "custom">>, <<34, "LatestFundingRate", "custom">>,
      <<42, "LatestPremiumFraction", "custom">>,
      <<50, "CumulativePremiumFraction", "custom">>, <<56, "BlockHeight", "varint">>,
      <<64, "BlockTimeMs", "varint">>>>
LiquidationFailedEvent ==
    [Pair |-> <<1, "custom">>, Trader |-> <<2, "string">>,
     Liquidator |-> <<3, "string">>, Reason |-> <<4, "enum">>]
MarshalLiquidationFailedEvent ==
    <<<<10, "Pair", "custom">>, <<18, "Trader", "string">>,
      <<26, "Liquidator", "string">>, <<32, "Reason", "enum">>>>

\* genesis.pb.go
GenesisState ==
    [Params |-> <<1, "message">>, Markets |-> <<2, "messages">>,
     Amms |-> <<3, "messages">>, Positions |-> <<4, "messages">>,
     ReserveSnapshots |-> <<5, "messages">>]
MarshalGenesisState ==
    <<<<10, "Params", "message">>, <<18, "Markets", "messages">>,
      <<26, "Amms", "messages">>, <<34, "Positions", "messages">>,
      <<42, "ReserveSnapshots", "messages">>>>

\* query.pb.go
QueryParamsRequest == <<>>
QueryParamsResponse ==
    [Params |-> <<1, "message">>]
MarshalQueryParamsResponse ==
    <<<<10, "Params", "message">>>>
QueryPositionsRequest ==
    [Trader |-> <<1, "string">>]
MarshalQueryPositionsRequest ==
    <<<<10, "Trader", "string">>>>
QueryPositionsResponse ==
    [Positions |-> <<1, "messages">>]
MarshalQueryPositionsResponse ==
    <<<<10, "Positions", "messages">>>>
QueryPositionRequest ==
    [Pair |-> <<1, "custom">>, Trader |-> <<2, "string">>]
MarshalQueryPositionRequest ==
    <<<<10, "Pair", "custom">>, <<18, "Trader", "string">>>>
QueryPositionResponse ==
    [Position |-> <<1, "message">>, PositionNotional |-> <<2, "custom">>,
     UnrealizedPnl |-> <<3, "custom">>, MarginRatio |-> <<4, "custom">>]
MarshalQueryPositionResponse ==
    <<<<10, "Position", "message">>, <<18, "PositionNotional", "custom">>,
      <<26, "UnrealizedPnl", "custom">>, <<34, "MarginRatio", "custom">>>>
QueryModuleAccountsRequest == <<>>
QueryModuleAccountsResponse ==
    [Accounts |-> <<1, "messages">>]
MarshalQueryModuleAccountsResponse ==
    <<<<10, "Accounts", "messages">>>>
AccountWithBalance ==
    [Name |-> <<1, "string">>, Address |-> <<2, "string">>,
     Balance |-> <<3, "messages">>]
MarshalAccountWithBalance ==
    <<<<10, "Name", "string">>, <<18, "Address", "string">>,
      <<26, "Balance", "messages">>>>

\* state.pb.go
Params == <<>>
Market ==
    [Pair |-> <<1, "custom">>, Enabled |-> <<2, "bool">>,
     PriceFluctuationLimitRatio |-> <<3, "custom">>,
     MaintenanceMarginRatio |-> <<4, "custom">>, MaxLeverage |-> <<5, "custom">>,
     LatestCumulativePremiumFraction |-> <<6, "custom">>,
     ExchangeFeeRatio |-> <<7, "custom">>, EcosystemFundFeeRatio |-> <<8, "custom">>,
     LiquidationFeeRatio |-> <<9, "custom">>,
     PartialLiquidationRatio |-> <<10, "custom">>,
     FundingRateEpochId |-> <<11, "string">>,
     TwapLookbackWindow |-> <<12, "duration">>, PrepaidBadDebt |-> <<13, "message">>]
MarshalMarket ==
    <<<<10, "Pair", "custom">>, <<16, "Enabled", "bool">>,
      <<26, "PriceFluctuationLimitRatio", "custom">>,
      <<34, "MaintenanceMarginRatio", "custom">>, <<42, "MaxLeverage", "custom">>,
      <<50, "LatestCumulativePremiumFraction", "custom">>,
      <<58, "ExchangeFeeRatio", "custom">>, <<66, "EcosystemFundFeeRatio", "custom">>,
      <<74, "LiquidationFeeRatio", "custom">>,
      <<82, "PartialLiquidationRatio", "custom">>,
      <<90, "FundingRateEpochId", "string">>, <<98, "TwapLookbackWindow", "duration">>,
      <<106, "PrepaidBadDebt", "message">>>>
AMM ==
    [Pair |-> <<1, "custom">>, BaseReserve |-> <<2, "custom">>,
     QuoteReserve |-> <<3, "custom">>, SqrtDepth |-> <<4, "custom">>,
     PriceMultiplier |-> <<5, "custom">>, TotalLong |-> <<6, "custom">>,
     TotalShort |-> <<7, "custom">>]
MarshalAMM ==
    <<<<10, "Pair", "custom">>, <<18, "BaseReserve", "custom">>,
      <<26, "QuoteReserve", "custom">>, <<34, "SqrtDepth", "custom">>,
      <<42, "PriceMultiplier", "custom">>, <<50, "TotalLong", "custom">>,
      <<58, "TotalShort", "custom">>>>
Position ==
    [TraderAddress |-> <<1, "string">>, Pair |-> <<2, "custom">>,
     Size_ |-> <<3, "custom">>, Margin |-> <<4, "custom">>,
     OpenNotional |-> <<5, "custom">>,
     LatestCumulativePremiumFraction |-> <<6, "custom">>,
     LastUpdatedBlockNumber |-> <<7, "varint">>]
MarshalPosition ==
    <<<<10, "TraderAddress", "string">>, <<18, "Pair", "custom">>,
      <<26, "Size_", "custom">>, <<34, "Margin", "custom">>,
      <<42, "OpenNotional", "custom">>,
      <<50, "LatestCumulativePremiumFraction", "custom">>,
      <<56, "LastUpdatedBlockNumber", "varint">>>>
ReserveSnapshot ==
    [Amm |-> <<1, "message">>, TimestampMs |-> <<2, "varint">>]
MarshalReserveSnapshot ==
    <<<<10, "Amm", "message">>, <<16, "TimestampMs", "varint">>>>

\* tx.pb.go
MsgRemoveMargin ==
    [Sender |-> <<1, "string">>, Pair |-> <<2, "custom">>, Margin |-> <<3, "message">>]
MarshalMsgRemoveMargin ==
    <<<<10, "Sender", "string">>, <<18, "Pair", "custom">>,
      <<26, "Margin", "message">>>>
MsgRemoveMarginResponse ==
    [MarginOut |-> <<1, "message">>, FundingPayment |-> <<2, "custom">>,
     Position |-> <<3, "pointer">>]
MarshalMsgRemoveMarginResponse ==
    <<<<10, "MarginOut", "message">>, <<18, "FundingPayment", "custom">>,
      <<26, "Position", "pointer">>>>
MsgAddMargin ==
    [Sender |-> <<1, "string">>, Pair |-> <<2, "custom">>, Margin |-> <<3, "message">>]
MarshalMsgAddMargin ==
    <<<<10, "Sender", "string">>, <<18, "Pair", "custom">>,
      <<26, "Margin", "message">>>>
MsgAddMarginResponse ==
    [FundingPayment |-> <<1, "custom">>, Position |-> <<2, "pointer">>]
MarshalMsgAddMarginResponse ==
    <<<<10, "FundingPayment", "custom">>, <<18, "Position", "pointer">>>>
MsgMultiLiquidate ==
    [Sender |-> <<1, "string">>, Liquidations |-> <<2, "messages">>]
MarshalMsgMultiLiquidate ==
    <<<<10, "Sender", "string">>, <<18, "Liquidations", "messages">>>>
MsgMultiLiquidate_Liquidation ==
    [Pair |-> <<1, "custom">>, Trader |-> <<2, "string">>]
MarshalMsgMultiLiquidate_Liquidation ==
    <<<<10, "Pair", "custom">>, <<18, "Trader", "string">>>>
MsgMultiLiquidateResponse ==
    [Liquidations |-> <<1, "messages">>]
MarshalMsgMultiLiquidateResponse ==
    <<<<10, "Liquidations", "messages">>>>
MsgMultiLiquidateResponse_LiquidationResponse ==
    [Success |-> <<1, "bool">>, Error |-> <<2, "string">>,
     LiquidatorFee |-> <<3, "message">>, PerpEfFee |-> <<4, "message">>]
MarshalMsgMultiLiquidateResponse_LiquidationResponse ==
    <<<<8, "Success", "bool">>, <<18, "Error", "string">>,
      <<26, "LiquidatorFee", "message">>, <<34, "PerpEfFee", "message">>>>
MsgOpenPosition ==
    [Sender |-> <<1, "string">>, Pair |-> <<2, "custom">>, Side |-> <<3, "enum">>,
     QuoteAssetAmount |-> <<4, "custom">>, Leverage |-> <<5, "custom">>,
     BaseAssetAmountLimit |-> <<6, "custom">>]
MarshalMsgOpenPosition ==
    <<<<10, "Sender", "string">>, <<18, "Pair", "custom">>, <<24, "Side", "enum">>,
      <<34, "QuoteAssetAmount", "custom">>, <<42, "Leverage", "custom">>,
      <<50, "BaseAssetAmountLimit", "custom">>>>
MsgOpenPositionResponse ==
    [Position |-> <<1, "pointer">>, ExchangedNotionalValue |-> <<2, "custom">>,
     ExchangedPositionSize |-> <<3, "custom">>, FundingPayment |-> <<4, "custom">>,
     RealizedPnl |-> <<5, "custom">>, UnrealizedPnlAfter |-> <<6, "custom">>,
     MarginToVault |-> <<7, "custom">>, PositionNotional |-> <<8, "custom">>]
MarshalMsgOpenPositionResponse ==
    <<<<10, "Position", "pointer">>, <<18, "ExchangedNotionalValue", "custom">>,
      <<26, "ExchangedPositionSize", "custom">>, <<34, "FundingPayment", "custom">>,
      <<42, "RealizedPnl", "custom">>, <<50, "UnrealizedPnlAfter", "custom">>,
      <<58, "MarginToVault", "custom">>, <<66, "PositionNotional", "custom">>>>
MsgClosePosition ==
    [Sender |-> <<1, "string">>, Pair |-> <<2, "custom">>]
MarshalMsgClosePosition ==
    <<<<10, "Sender", "string">>, <<18, "Pair", "custom">>>>
MsgClosePositionResponse ==
    [ExchangedNotionalValue |-> <<1, "custom">>,
     ExchangedPositionSize |-> <<2, "custom">>, FundingPayment |-> <<3, "custom">>,
     RealizedPnl |-> <<4, "custom">>, MarginToTrader |-> <<7, "custom">>]
MarshalMsgClosePositionResponse ==
    <<<<10, "ExchangedNotionalValue", "custom">>,
      <<18, "ExchangedPositionSize", "custom">>, <<26, "FundingPayment", "custom">>,
      <<34, "RealizedPnl", "custom">>, <<58, "MarginToTrader", "custom">>>>
MsgDonateToEcosystemFund ==
    [Sender |-> <<1, "string">>, Donation |-> <<2, "message">>]
MarshalMsgDonateToEcosystemFund ==
    <<<<10, "Sender", "string">>, <<18, "Donation", "message">>>>
MsgDonateToEcosystemFundResponse == <<>>

Unmarshals ==
    [PositionChangedEvent |-> PositionChangedEvent,
     PositionLiquidatedEvent |-> PositionLiquidatedEvent,
     PositionSettledEvent |-> PositionSettledEvent,
     FundingRateChangedEvent |-> FundingRateChangedEvent,
     LiquidationFailedEvent |-> LiquidationFailedEvent, GenesisState |-> GenesisState,
     QueryParamsRequest |-> QueryParamsRequest,
     QueryParamsResponse |-> QueryParamsResponse,
     QueryPositionsRequest |-> QueryPositionsRequest,
     QueryPositionsResponse |-> QueryPositionsResponse,
     QueryPositionRequest |-> QueryPositionRequest,
     QueryPositionResponse |-> QueryPositionResponse,
     QueryModuleAccountsRequest |-> QueryModuleAccountsRequest,
     QueryModuleAccountsResponse |-> QueryModuleAccountsResponse,
     AccountWithBalance |-> AccountWithBalance, Params |-> Params, Market |-> Market,
     AMM |-> AMM, Position |-> Position, ReserveSnapshot |-> ReserveSnapshot,
     MsgRemoveMargin |-> MsgRemoveMargin,
     MsgRemoveMarginResponse |-> MsgRemoveMarginResponse,
     MsgAddMargin |-> MsgAddMargin, MsgAddMarginResponse |-> MsgAddMarginResponse,
     MsgMultiLiquidate |-> MsgMultiLiquidate,
     MsgMultiLiquidate_Liquidation |-> MsgMultiLiquidate_Liquidation,
     MsgMultiLiquidateResponse |-> MsgMultiLiquidateResponse,
     MsgMultiLiquidateResponse_LiquidationResponse |-> MsgMultiLiquidateResponse_LiquidationResponse,
     MsgOpenPosition |-> MsgOpenPosition,
     MsgOpenPositionResponse |-> MsgOpenPositionResponse,
     MsgClosePosition |-> MsgClosePosition,
     MsgClosePositionResponse |-> MsgClosePositionResponse,
     MsgDonateToEcosystemFund |-> MsgDonateToEcosystemFund,
     MsgDonateToEcosystemFundResponse |-> MsgDonateToEcosystemFundResponse]
Marshals ==
    [PositionChangedEvent |-> MarshalPositionChangedEvent,
     PositionLiquidatedEvent |-> MarshalPositionLiquidatedEvent,
     PositionSettledEvent |-> MarshalPositionSettledEvent,
     FundingRateChangedEvent |-> MarshalFundingRateChangedEvent,
     LiquidationFailedEvent |-> MarshalLiquidationFailedEvent,
     GenesisState |-> MarshalGenesisState, QueryParamsRequest |-> <<>>,
     QueryParamsResponse |-> MarshalQueryParamsResponse,
     QueryPositionsRequest |-> MarshalQueryPositionsRequest,
     QueryPositionsResponse |-> MarshalQueryPositionsResponse,
     QueryPositionRequest |-> MarshalQueryPositionRequest,
     QueryPositionResponse |-> MarshalQueryPositionResponse,
     QueryModuleAccountsRequest |-> <<>>,
     QueryModuleAccountsResponse |-> MarshalQueryModuleAccountsResponse,
     AccountWithBalance |-> MarshalAccountWithBalance, Params |-> <<>>,
     Market |-> MarshalMarket, AMM |-> MarshalAMM, Position |-> MarshalPosition,
     ReserveSnapshot |-> MarshalReserveSnapshot,
     MsgRemoveMargin |-> MarshalMsgRemoveMargin,
     MsgRemoveMarginResponse |-> MarshalMsgRemoveMarginResponse,
     MsgAddMargin |-> MarshalMsgAddMargin,
     MsgAddMarginResponse |-> MarshalMsgAddMarginResponse,
     MsgMultiLiquidate |-> MarshalMsgMultiLiquidate,
     MsgMultiLiquidate_Liquidation |-> MarshalMsgMultiLiquidate_Liquidation,
     MsgMultiLiquidateResponse |-> MarshalMsgMultiLiquidateResponse,
     MsgMultiLiquidateResponse_LiquidationResponse |-> MarshalMsgMultiLiquidateResponse_LiquidationResponse,
     MsgOpenPosition |-> MarshalMsgOpenPosition,
     MsgOpenPositionResponse |-> MarshalMsgOpenPositionResponse,
     MsgClosePosition |-> MarshalMsgClosePosition,
     MsgClosePositionResponse |-> MarshalMsgClosePositionResponse,
     MsgDonateToEcosystemFund |-> MarshalMsgDonateToEcosystemFund,
     MsgDonateToEcosystemFundResponse |-> <<>>]
=============================================================================
