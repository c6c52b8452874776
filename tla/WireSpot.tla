------------------------------ MODULE WireSpot ------------------------------
(* The tables of the generated codec of spot, for ProtoWire: for every message
   M what its Unmarshal expects (M) and what its MarshalToSizedBuffer writes
   (MarshalM); a message without fields writes nothing. *)

\* event.pb.go
EventPoolJoined ==
    [Address |-> <<1, "string">>, PoolId |-> <<2, "varint">>,
     TokensIn |-> <<3, "messages">>, PoolSharesOut |-> <<4, "message">>,
     RemCoins |-> <<5, "messages">>]
MarshalEventPoolJoined ==
    <<<<10, "Address", "string">>, <<16, "PoolId", "varint">>,
      <<26, "TokensIn", "messages">>, <<34, "PoolSharesOut", "message">>,
      <<42, "RemCoins", "messages">>>>
EventPoolCreated ==
    [Creator |-> <<1, "string">>, PoolId |-> <<2, "varint">>,
     Fees |-> <<3, "messages">>]
MarshalEventPoolCreated ==
    <<<<10, "Creator", "string">>, <<16, "PoolId", "varint">>,
      <<26, "Fees", "messages">>>>
EventPoolExited ==
    [Address |-> <<1, "string">>, PoolId |-> <<2, "varint">>,
     PoolSharesIn |-> <<3, "message">>, TokensOut |-> <<4, "messages">>,
     Fees |-> <<5, "messages">>]
MarshalEventPoolExited ==
    <<<<10, "Address", "string">>, <<16, "PoolId", "varint">>,
      <<26, "PoolSharesIn", "message">>, <<34, "TokensOut", "messages">>,
      <<42, "Fees", "messages">>>>
EventAssetsSwapped ==
    [Address |-> <<1, "string">>, PoolId |-> <<2, "varint">>,
     TokenIn |-> <<3, "message">>, TokenOut |-> <<4, "message">>,
     Fee |-> <<5, "message">>]
MarshalEventAssetsSwapped ==
    <<<<10, "Address", "string">>, <<16, "PoolId", "varint">>,
      <<26, "TokenIn", "message">>, <<34, "TokenOut", "message">>,
      <<42, "Fee", "message">>>>

\* genesis.pb.go
GenesisState ==
    [Params |-> <<1, "message">>]
MarshalGenesisState ==
    <<<<10, "Params", "message">>>>

\* params.pb.go
Params ==
    [StartingPoolNumber |-> <<1, "varint">>, PoolCreationFee |-> <<2, "messages">>,
     WhitelistedAsset |-> <<3, "strings">>]
MarshalParams ==
    <<<<8, "StartingPoolNumber", "varint">>, <<18, "PoolCreationFee", "messages">>,
      <<26, "WhitelistedAsset", "strings">>>>

\* pool.pb.go
PoolParams ==
    [SwapFee |-> <<1, "custom">>, ExitFee |-> <<2, "custom">>, A |-> <<3, "custom">>,
     PoolType |-> <<4, "enum">>]
MarshalPoolParams ==
    <<<<10, "SwapFee", "custom">>, <<18, "ExitFee", "custom">>, <<26, "A", "custom">>,
      <<32, "PoolType", "enum">>>>
PoolAsset ==
    [Token |-> <<1, "message">>, Weight |-> <<2, "custom">>]
MarshalPoolAsset ==
    <<<<10, "Token", "message">>, <<18, "Weight", "custom">>>>
Pool ==
    [Id |-> <<1, "varint">>, Address |-> <<2, "string">>,
     PoolParams |-> <<3, "message">>, PoolAssets |-> <<4, "messages">>,
     TotalWeight |-> <<5, "custom">>, TotalShares |-> <<6, "message">>]
MarshalPool ==
    <<<<8, "Id", "varint">>, <<18, "Address", "string">>,
      <<26, "PoolParams", "message">>, <<34, "PoolAssets", "messages">>,
      <<42, "TotalWeight", "custom">>, <<50, "TotalShares", "message">>>>

\* query.pb.go
QueryParamsRequest == <<>>
QueryParamsResponse ==
    [Params |-> <<1, "message">>]
MarshalQueryParamsResponse ==
    <<<<10, "Params", "message">>>>
QueryPoolNumberRequest == <<>>
QueryPoolNumberResponse ==
    [PoolId |-> <<1, "varint">>]
MarshalQueryPoolNumberResponse ==
    <<<<8, "PoolId", "varint">>>>
QueryPoolRequest ==
    [PoolId |-> <<1, "varint">>]
MarshalQueryPoolRequest ==
    <<<<8, "PoolId", "varint">>>>
QueryPoolResponse ==
    [Pool |-> <<1, "pointer">>]
MarshalQueryPoolResponse ==
    <<<<10, "Pool", "pointer">>>>
QueryPoolsRequest ==
    [Pagination |-> <<1, "pointer">>]
MarshalQueryPoolsRequest ==
    <<<<10, "Pagination", "pointer">>>>
QueryPoolsResponse ==
    [Pools |-> <<1, "messages">>, Pagination |-> <<2, "pointer">>]
MarshalQueryPoolsResponse ==
    <<<<10, "Pools", "messages">>, <<18, "Pagination", "pointer">>>>
QueryPoolParamsRequest ==
    [PoolId |-> <<1, "varint">>]
MarshalQueryPoolParamsRequest ==
    <<<<8, "PoolId", "varint">>>>
QueryPoolParamsResponse ==
    [PoolParams |-> <<1, "pointer">>]
MarshalQueryPoolParamsResponse ==
    <<<<10, "PoolParams", "pointer">>>>
QueryNumPoolsRequest == <<>>
QueryNumPoolsResponse ==
    [NumPools |-> <<1, "varint">>]
MarshalQueryNumPoolsResponse ==
    <<<<8, "NumPools", "varint">>>>
QueryTotalLiquidityRequest == <<>>
QueryTotalLiquidityResponse ==
    [Liquidity |-> <<1, "messages">>]
MarshalQueryTotalLiquidityResponse ==
    <<<<10, "Liquidity", "messages">>>>
QueryTotalPoolLiquidityRequest ==
    [PoolId |-> <<1, "varint">>]
MarshalQueryTotalPoolLiquidityRequest ==
    <<<<8, "PoolId", "varint">>>>
QueryTotalPoolLiquidityResponse ==
    [Liquidity |-> <<1, "messages">>]
MarshalQueryTotalPoolLiquidityResponse ==
    <<<<10, "Liquidity", "messages">>>>
QueryTotalSharesRequest ==
    [PoolId |-> <<1, "varint">>]
MarshalQueryTotalSharesRequest ==
    <<<<8, "PoolId", "varint">>>>
QueryTotalSharesResponse ==
    [TotalShares |-> <<1, "message">>]
MarshalQueryTotalSharesResponse ==
    <<<<10, "TotalShares", "message">>>>
QuerySpotPriceRequest ==
    [PoolId |-> <<1, "varint">>, TokenInDenom |-> <<2, "string">>,
     TokenOutDenom |-> <<3, "string">>]
MarshalQuerySpotPriceRequest ==
    <<<<8, "PoolId", "varint">>, <<18, "TokenInDenom", "string">>,
      <<26, "TokenOutDenom", "string">>>>
QuerySpotPriceResponse ==
    [SpotPrice |-> <<1, "string">>]
MarshalQuerySpotPriceResponse ==
    <<<<10, "SpotPrice", "string">>>>
QuerySwapExactAmountInRequest ==
    [PoolId |-> <<1, "varint">>, TokenIn |-> <<2, "message">>,
     TokenOutDenom |-> <<3, "string">>]
MarshalQuerySwapExactAmountInRequest ==
    <<<<8, "PoolId", "varint">>, <<18, "TokenIn", "message">>,
      <<26, "TokenOutDenom", "string">>>>
QuerySwapExactAmountInResponse ==
    [TokenOut |-> <<2, "message">>, Fee |-> <<3, "message">>]
MarshalQuerySwapExactAmountInResponse ==
    <<<<18, "TokenOut", "message">>, <<26, "Fee", "message">>>>
QuerySwapExactAmountOutRequest ==
    [PoolId |-> <<1, "varint">>, TokenOut |-> <<2, "message">>,
     TokenInDenom |-> <<3, "string">>]
MarshalQuerySwapExactAmountOutRequest ==
    <<<<8, "PoolId", "varint">>, <<18, "TokenOut", "message">>,
      <<26, "TokenInDenom", "string">>>>
QuerySwapExactAmountOutResponse ==
    [TokenIn |-> <<2, "message">>]
MarshalQuerySwapExactAmountOutResponse ==
    <<<<18, "TokenIn", "message">>>>
QueryJoinExactAmountInRequest ==
    [PoolId |-> <<1, "varint">>, TokensIn |-> <<2, "messages">>]
MarshalQueryJoinExactAmountInRequest ==
    <<<<8, "PoolId", "varint">>, <<18, "TokensIn", "messages">>>>
QueryJoinExactAmountInResponse ==
    [PoolSharesOut |-> <<1, "custom">>, RemCoins |-> <<2, "messages">>]
MarshalQueryJoinExactAmountInResponse ==
    <<<<10, "PoolSharesOut", "custom">>, <<18, "RemCoins", "messages">>>>
QueryJoinExactAmountOutRequest ==
    [PoolId |-> <<1, "varint">>]
MarshalQueryJoinExactAmountOutRequest ==
    <<<<8, "PoolId", "varint">>>>
QueryJoinExactAmountOutResponse == <<>>
QueryExitExactAmountInRequest ==
    [PoolId |-> <<1, "varint">>, PoolSharesIn |-> <<2, "custom">>]
MarshalQueryExitExactAmountInRequest ==
    <<<<8, "PoolId", "varint">>, <<18, "PoolSharesIn", "custom">>>>
QueryExitExactAmountInResponse ==
    [TokensOut |-> <<1, "messages">>, Fees |-> <<2, "messages">>]
MarshalQueryExitExactAmountInResponse ==
    <<<<10, "TokensOut", "messages">>, <<18, "Fees", "messages">>>>
QueryExitExactAmountOutRequest ==
    [PoolId |-> <<1, "varint">>]
MarshalQueryExitExactAmountOutRequest ==
    <<<<8, "PoolId", "varint">>>>
QueryExitExactAmountOutResponse == <<>>

\* tx.pb.go
MsgCreatePool ==
    [Creator |-> <<1, "string">>, PoolParams |-> <<2, "pointer">>,
     PoolAssets |-> <<3, "messages">>]
MarshalMsgCreatePool ==
    <<<<10, "Creator", "string">>, <<18, "PoolParams", "pointer">>,
      <<26, "PoolAssets", "messages">>>>
MsgCreatePoolResponse ==
    [PoolId |-> <<1, "varint">>]
MarshalMsgCreatePoolResponse ==
    <<<<8, "PoolId", "varint">>>>
MsgJoinPool ==
    [Sender |-> <<1, "string">>, PoolId |-> <<2, "varint">>,
     TokensIn |-> <<3, "messages">>, UseAllCoins |-> <<4, "bool">>]
MarshalMsgJoinPool ==
    <<<<10, "Sender", "string">>, <<16, "PoolId", "varint">>,
      <<26, "TokensIn", "messages">>, <<32, "UseAllCoins", "bool">>>>
MsgJoinPoolResponse ==
    [Pool |-> <<1, "pointer">>, NumPoolSharesOut |-> <<2, "message">>,
     RemainingCoins |-> <<3, "messages">>]
MarshalMsgJoinPoolResponse ==
    <<<<10, "Pool", "pointer">>, <<18, "NumPoolSharesOut", "message">>,
      <<26, "RemainingCoins", "messages">>>>
MsgExitPool ==
    [Sender |-> <<1, "string">>, PoolId |-> <<2, "varint">>,
     PoolShares |-> <<3, "message">>]
MarshalMsgExitPool ==
    <<<<10, "Sender", "string">>, <<16, "PoolId", "varint">>,
      <<26, "PoolShares", "message">>>>
MsgExitPoolResponse ==
    [TokensOut |-> <<3, "messages">>]
MarshalMsgExitPoolResponse ==
    <<<<26, "TokensOut", "messages">>>>
MsgSwapAssets ==
    [Sender |-> <<1, "string">>, PoolId |-> <<2, "varint">>,
     TokenIn |-> <<3, "message">>, TokenOutDenom |-> <<4, "string">>]
MarshalMsgSwapAssets ==
    <<<<10, "Sender", "string">>, <<16, "PoolId", "varint">>,
      <<26, "TokenIn", "message">>, <<34, "TokenOutDenom", "string">>>>
MsgSwapAssetsResponse ==
    [TokenOut |-> <<3, "message">>]
MarshalMsgSwapAssetsResponse ==
    <<<<26, "TokenOut", "message">>>>

Unmarshals ==
    [EventPoolJoined |-> EventPoolJoined, EventPoolCreated |-> EventPoolCreated,
     EventPoolExited |-> EventPoolExited, EventAssetsSwapped |-> EventAssetsSwapped,
     GenesisState |-> GenesisState, Params |-> Params, PoolParams |-> PoolParams,
     PoolAsset |-> PoolAsset, Pool |-> Pool, QueryParamsRequest |-> QueryParamsRequest,
     QueryParamsResponse |-> QueryParamsResponse,
     QueryPoolNumberRequest |-> QueryPoolNumberRequest,
     QueryPoolNumberResponse |-> QueryPoolNumberResponse,
     QueryPoolRequest |-> QueryPoolRequest, QueryPoolResponse |-> QueryPoolResponse,
     QueryPoolsRequest |-> QueryPoolsRequest,
     QueryPoolsResponse |-> QueryPoolsResponse,
     QueryPoolParamsRequest |-> QueryPoolParamsRequest,
     QueryPoolParamsResponse |-> QueryPoolParamsResponse,
     QueryNumPoolsRequest |-> QueryNumPoolsRequest,
     QueryNumPoolsResponse |-> QueryNumPoolsResponse,
     QueryTotalLiquidityRequest |-> QueryTotalLiquidityRequest,
     QueryTotalLiquidityResponse |-> QueryTotalLiquidityResponse,
     QueryTotalPoolLiquidityRequest |-> QueryTotalPoolLiquidityRequest,
     QueryTotalPoolLiquidityResponse |-> QueryTotalPoolLiquidityResponse,
     QueryTotalSharesRequest |-> QueryTotalSharesRequest,
     QueryTotalSharesResponse |-> QueryTotalSharesResponse,
     QuerySpotPriceRequest |-> QuerySpotPriceRequest,
     QuerySpotPriceResponse |-> QuerySpotPriceResponse,
     QuerySwapExactAmountInRequest |-> QuerySwapExactAmountInRequest,
     QuerySwapExactAmountInResponse |-> QuerySwapExactAmountInResponse,
     QuerySwapExactAmountOutRequest |-> QuerySwapExactAmountOutRequest,
     QuerySwapExactAmountOutResponse |-> QuerySwapExactAmountOutResponse,
     QueryJoinExactAmountInRequest |-> QueryJoinExactAmountInRequest,
     QueryJoinExactAmountInResponse |-> QueryJoinExactAmountInResponse,
     QueryJoinExactAmountOutRequest |-> QueryJoinExactAmountOutRequest,
     QueryJoinExactAmountOutResponse |-> QueryJoinExactAmountOutResponse,
     QueryExitExactAmountInRequest |-> QueryExitExactAmountInRequest,
     QueryExitExactAmountInResponse |-> QueryExitExactAmountInResponse,
     QueryExitExactAmountOutRequest |-> QueryExitExactAmountOutRequest,
     QueryExitExactAmountOutResponse |-> QueryExitExactAmountOutResponse,
     MsgCreatePool |-> MsgCreatePool, MsgCreatePoolResponse |-> MsgCreatePoolResponse,
     MsgJoinPool |-> MsgJoinPool, MsgJoinPoolResponse |-> MsgJoinPoolResponse,
     MsgExitPool |-> MsgExitPool, MsgExitPoolResponse |-> MsgExitPoolResponse,
     MsgSwapAssets |-> MsgSwapAssets, MsgSwapAssetsResponse |-> MsgSwapAssetsResponse]
Marshals ==
    [EventPoolJoined |-> MarshalEventPoolJoined,
     EventPoolCreated |-> MarshalEventPoolCreated,
     EventPoolExited |-> MarshalEventPoolExited,
     EventAssetsSwapped |-> MarshalEventAssetsSwapped,
     GenesisState |-> MarshalGenesisState, Params |-> MarshalParams,
     PoolParams |-> MarshalPoolParams, PoolAsset |-> MarshalPoolAsset,
     Pool |-> MarshalPool, QueryParamsRequest |-> <<>>,
     QueryParamsResponse |-> MarshalQueryParamsResponse,
     QueryPoolNumberRequest |-> <<>>,
     QueryPoolNumberResponse |-> MarshalQueryPoolNumberResponse,
     QueryPoolRequest |-> MarshalQueryPoolRequest,
     QueryPoolResponse |-> MarshalQueryPoolResponse,
     QueryPoolsRequest |-> MarshalQueryPoolsRequest,
     QueryPoolsResponse |-> MarshalQueryPoolsResponse,
     QueryPoolParamsRequest |-> MarshalQueryPoolParamsRequest,
     QueryPoolParamsResponse |-> MarshalQueryPoolParamsResponse,
     QueryNumPoolsRequest |-> <<>>,
     QueryNumPoolsResponse |-> MarshalQueryNumPoolsResponse,
     QueryTotalLiquidityRequest |-> <<>>,
     QueryTotalLiquidityResponse |-> MarshalQueryTotalLiquidityResponse,
     QueryTotalPoolLiquidityRequest |-> MarshalQueryTotalPoolLiquidityRequest,
     QueryTotalPoolLiquidityResponse |-> MarshalQueryTotalPoolLiquidityResponse,
     QueryTotalSharesRequest |-> MarshalQueryTotalSharesRequest,
     QueryTotalSharesResponse |-> MarshalQueryTotalSharesResponse,
     QuerySpotPriceRequest |-> MarshalQuerySpotPriceRequest,
     QuerySpotPriceResponse |-> MarshalQuerySpotPriceResponse,
     QuerySwapExactAmountInRequest |-> MarshalQuerySwapExactAmountInRequest,
     QuerySwapExactAmountInResponse |-> MarshalQuerySwapExactAmountInResponse,
     QuerySwapExactAmountOutRequest |-> MarshalQuerySwapExactAmountOutRequest,
     QuerySwapExactAmountOutResponse |-> MarshalQuerySwapExactAmountOutResponse,
     QueryJoinExactAmountInRequest |-> MarshalQueryJoinExactAmountInRequest,
     QueryJoinExactAmountInResponse |-> MarshalQueryJoinExactAmountInResponse,
     QueryJoinExactAmountOutRequest |-> MarshalQueryJoinExactAmountOutRequest,
     QueryJoinExactAmountOutResponse |-> <<>>,
     QueryExitExactAmountInRequest |-> MarshalQueryExitExactAmountInRequest,
     QueryExitExactAmountInResponse |-> MarshalQueryExitExactAmountInResponse,
     QueryExitExactAmountOutRequest |-> MarshalQueryExitExactAmountOutRequest,
     QueryExitExactAmountOutResponse |-> <<>>, MsgCreatePool |-> MarshalMsgCreatePool,
     MsgCreatePoolResponse |-> MarshalMsgCreatePoolResponse,
     MsgJoinPool |-> MarshalMsgJoinPool,
     MsgJoinPoolResponse |-> MarshalMsgJoinPoolResponse,
     MsgExitPool |-> MarshalMsgExitPool,
     MsgExitPoolResponse |-> MarshalMsgExitPoolResponse,
     MsgSwapAssets |-> MarshalMsgSwapAssets,
     MsgSwapAssetsResponse |-> MarshalMsgSwapAssetsResponse]
=============================================================================
