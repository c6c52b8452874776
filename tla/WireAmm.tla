------------------------------ MODULE WireAmm -------------------------------
(* The tables of the generated codec of the perp amm, for ProtoWire: for every message
   M what its Unmarshal expects (M) and what its MarshalToSizedBuffer writes
   (MarshalM); a message without fields writes nothing. *)

\* event.pb.go
ReserveSnapshotSavedEvent ==
    [Pair |-> <<1, "custom">>, QuoteReserve |-> <<2, "custom">>,
     BaseReserve |-> <<3, "custom">>, MarkPrice |-> <<4, "custom">>,
     BlockHeight |-> <<5, "varint">>, BlockTimestamp |-> <<6, "time">>]
MarshalReserveSnapshotSavedEvent ==
    <<<<10, "Pair", "custom">>, <<18, "QuoteReserve", "custom">>,
      <<26, "BaseReserve", "custom">>, <<34, "MarkPrice", "custom">>,
      <<40, "BlockHeight", "varint">>, <<50, "BlockTimestamp", "time">>>>
SwapEvent ==
    [Pair |-> <<1, "custom">>, QuoteAmount |-> <<2, "custom">>,
     BaseAmount |-> <<3, "custom">>]
MarshalSwapEvent ==
    <<<<10, "Pair", "custom">>, <<18, "QuoteAmount", "custom">>,
      <<26, "BaseAmount", "custom">>>>
MarkPriceChangedEvent ==
    [Pair |-> <<1, "custom">>, Price |-> <<2, "custom">>,
     BlockTimestamp |-> <<3, "time">>]
MarshalMarkPriceChangedEvent ==
    <<<<10, "Pair", "custom">>, <<18, "Price", "custom">>,
      <<26, "BlockTimestamp", "time">>>>

\* genesis.pb.go
GenesisState ==
    [Markets |-> <<1, "messages">>]
MarshalGenesisState ==
    <<<<10, "Markets", "messages">>>>

\* gov.pb.go
CreatePoolProposal ==
    [Title |-> <<1, "string">>, Description |-> <<2, "string">>,
     Pair |-> <<3, "custom">>, QuoteReserve |-> <<5, "custom">>,
     BaseReserve |-> <<6, "custom">>, Config |-> <<7, "message">>,
     PegMultiplier |-> <<8, "custom">>]
MarshalCreatePoolProposal ==
    <<<<10, "Title", "string">>, <<18, "Description", "string">>,
      <<26, "Pair", "custom">>, <<42, "QuoteReserve", "custom">>,
      <<50, "BaseReserve", "custom">>, <<58, "Config", "message">>,
      <<66, "PegMultiplier", "custom">>>>
EditPoolConfigProposal ==
    [Title |-> <<1, "string">>, Description |-> <<2, "string">>,
     Pair |-> <<3, "custom">>, Config |-> <<4, "message">>]
MarshalEditPoolConfigProposal ==
    <<<<10, "Title", "string">>, <<18, "Description", "string">>,
      <<26, "Pair", "custom">>, <<34, "Config", "message">>>>
EditSwapInvariantsProposal ==
    [Title |-> <<1, "string">>, Description |-> <<2, "string">>,
     SwapInvariantMaps |-> <<5, "messages">>]
MarshalEditSwapInvariantsProposal ==
    <<<<10, "Title", "string">>, <<18, "Description", "string">>,
      <<42, "SwapInvariantMaps", "messages">>>>
EditSwapInvariantsProposal_SwapInvariantMultiple ==
    [Pair |-> <<3, "custom">>, Multiplier |-> <<4, "custom">>]
MarshalEditSwapInvariantsProposal_SwapInvariantMultiple ==
    <<<<26, "Pair", "custom">>, <<34, "Multiplier", "custom">>>>

\* query.pb.go
QueryReserveAssetsRequest ==
    [Pair |-> <<1, "custom">>]
MarshalQueryReserveAssetsRequest ==
    <<<<10, "Pair", "custom">>>>
QueryReserveAssetsResponse ==
    [BaseReserve |-> <<1, "custom">>, QuoteReserve |-> <<2, "custom">>]
MarshalQueryReserveAssetsResponse ==
    <<<<10, "BaseReserve", "custom">>, <<18, "QuoteReserve", "custom">>>>
QueryAllPoolsRequest == <<>>
QueryAllPoolsResponse ==
    [Markets |-> <<1, "messages">>, Prices |-> <<2, "messages">>]
MarshalQueryAllPoolsResponse ==
    <<<<10, "Markets", "messages">>, <<18, "Prices", "messages">>>>
QueryBaseAssetPriceRequest ==
    [Pair |-> <<1, "custom">>, Direction |-> <<2, "enum">>,
     BaseAssetAmount |-> <<3, "custom">>]
MarshalQueryBaseAssetPriceRequest ==
    <<<<10, "Pair", "custom">>, <<16, "Direction", "enum">>,
      <<26, "BaseAssetAmount", "custom">>>>
QueryBaseAssetPriceResponse ==
    [PriceInQuoteDenom |-> <<1, "custom">>]
MarshalQueryBaseAssetPriceResponse ==
    <<<<10, "PriceInQuoteDenom", "custom">>>>

\* state.pb.go
Market ==
    [Pair |-> <<1, "custom">>, BaseReserve |-> <<2, "custom">>,
     QuoteReserve |-> <<3, "custom">>, Config |-> <<4, "message">>,
     SqrtDepth |-> <<5, "custom">>, TotalLong |-> <<6, "custom">>,
     TotalShort |-> <<7, "custom">>, PegMultiplier |-> <<8, "custom">>]
MarshalMarket ==
    <<<<10, "Pair", "custom">>, <<18, "BaseReserve", "custom">>,
      <<26, "QuoteReserve", "custom">>, <<34, "Config", "message">>,
      <<42, "SqrtDepth", "custom">>, <<50, "TotalLong", "custom">>,
      <<58, "TotalShort", "custom">>, <<66, "PegMultiplier", "custom">>>>
MarketConfig ==
    [TradeLimitRatio |-> <<1, "custom">>, FluctuationLimitRatio |-> <<2, "custom">>,
     MaxOracleSpreadRatio |-> <<3, "custom">>,
     MaintenanceMarginRatio |-> <<4, "custom">>, MaxLeverage |-> <<5, "custom">>]
MarshalMarketConfig ==
    <<<<10, "TradeLimitRatio", "custom">>, <<18, "FluctuationLimitRatio", "custom">>,
      <<26, "MaxOracleSpreadRatio", "custom">>,
      <<34, "MaintenanceMarginRatio", "custom">>, <<42, "MaxLeverage", "custom">>>>
CurrentTWAP ==
    [PairID |-> <<1, "string">>, Numerator |-> <<2, "custom">>,
     Denominator |-> <<3, "custom">>, Price |-> <<4, "custom">>]
MarshalCurrentTWAP ==
    <<<<10, "PairID", "string">>, <<18, "Numerator", "custom">>,
      <<26, "Denominator", "custom">>, <<34, "Price", "custom">>>>
ReserveSnapshot ==
    [BaseReserve |-> <<1, "custom">>, QuoteReserve |-> <<2, "custom">>,
     TimestampMs |-> <<4, "varint">>, Pair |-> <<5, "custom">>,
     PegMultiplier |-> <<6, "custom">>]
MarshalReserveSnapshot ==
    <<<<10, "BaseReserve", "custom">>, <<18, "QuoteReserve", "custom">>,
      <<32, "TimestampMs", "varint">>, <<42, "Pair", "custom">>,
      <<50, "PegMultiplier", "custom">>>>
PoolPrices ==
    [Pair |-> <<9, "custom">>, MarkPrice |-> <<10, "custom">>,
     IndexPrice |-> <<11, "string">>, TwapMark |-> <<12, "string">>,
     SwapInvariant |-> <<13, "custom">>, BlockNumber |-> <<14, "varint">>]
MarshalPoolPrices ==
    <<<<74, "Pair", "custom">>, <<82, "MarkPrice", "custom">>,
      <<90, "IndexPrice", "string">>, <<98, "TwapMark", "string">>,
      <<106, "SwapInvariant", "custom">>, <<112, "BlockNumber", "varint">>>>

Unmarshals ==
    [ReserveSnapshotSavedEvent |-> ReserveSnapshotSavedEvent, SwapEvent |-> SwapEvent,
     MarkPriceChangedEvent |-> MarkPriceChangedEvent, GenesisState |-> GenesisState,
     CreatePoolProposal |-> CreatePoolProposal,
     EditPoolConfigProposal |-> EditPoolConfigProposal,
     EditSwapInvariantsProposal |-> EditSwapInvariantsProposal,
     EditSwapInvariantsProposal_SwapInvariantMultiple |-> EditSwapInvariantsProposal_SwapInvariantMultiple,
     QueryReserveAssetsRequest |-> QueryReserveAssetsRequest,
     QueryReserveAssetsResponse |-> QueryReserveAssetsResponse,
     QueryAllPoolsRequest |-> QueryAllPoolsRequest,
     QueryAllPoolsResponse |-> QueryAllPoolsResponse,
     QueryBaseAssetPriceRequest |-> QueryBaseAssetPriceRequest,
     QueryBaseAssetPriceResponse |-> QueryBaseAssetPriceResponse, Market |-> Market,
     MarketConfig |-> MarketConfig, CurrentTWAP |-> CurrentTWAP,
     ReserveSnapshot |-> ReserveSnapshot, PoolPrices |-> PoolPrices]
Marshals ==
    [ReserveSnapshotSavedEvent |-> MarshalReserveSnapshotSavedEvent,
     SwapEvent |-> MarshalSwapEvent,
     MarkPriceChangedEvent |-> MarshalMarkPriceChangedEvent,
     GenesisState |-> MarshalGenesisState,
     CreatePoolProposal |-> MarshalCreatePoolProposal,
     EditPoolConfigProposal |-> MarshalEditPoolConfigProposal,
     EditSwapInvariantsProposal |-> MarshalEditSwapInvariantsProposal,
     EditSwapInvariantsProposal_SwapInvariantMultiple |-> MarshalEditSwapInvariantsProposal_SwapInvariantMultiple,
     QueryReserveAssetsRequest |-> MarshalQueryReserveAssetsRequest,
     QueryReserveAssetsResponse |-> MarshalQueryReserveAssetsResponse,
     QueryAllPoolsRequest |-> <<>>,
     QueryAllPoolsResponse |-> MarshalQueryAllPoolsResponse,
     QueryBaseAssetPriceRequest |-> MarshalQueryBaseAssetPriceRequest,
     QueryBaseAssetPriceResponse |-> MarshalQueryBaseAssetPriceResponse,
     Market |-> MarshalMarket, MarketConfig |-> MarshalMarketConfig,
     CurrentTWAP |-> MarshalCurrentTWAP, ReserveSnapshot |-> MarshalReserveSnapshot,
     PoolPrices |-> MarshalPoolPrices]
=============================================================================
