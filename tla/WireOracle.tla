----------------------------- MODULE WireOracle -----------------------------
(* The tables of the generated codec of oracle, for ProtoWire: for every message
   M what its Unmarshal expects (M) and what its MarshalToSizedBuffer writes
   (MarshalM); a message without fields writes nothing. *)

\* event.pb.go
OraclePriceUpdate ==
    [Pair |-> <<1, "string">>, Price |-> <<2, "custom">>,
     TimestampMs |-> <<3, "varint">>]
MarshalOraclePriceUpdate ==
    <<<<10, "Pair", "string">>, <<18, "Price", "custom">>,
      <<24, "TimestampMs", "varint">>>>

\* genesis.pb.go
GenesisState ==
    [Params |-> <<1, "message">>, FeederDelegations |-> <<2, "messages">>,
     ExchangeRates |-> <<3, "messages">>, MissCounters |-> <<4, "messages">>,
     AggregateExchangeRatePrevotes |-> <<5, "messages">>,
     AggregateExchangeRateVotes |-> <<6, "messages">>, Pairs |-> <<7, "customs">>,
     Rewards |-> <<8, "messages">>]
MarshalGenesisState ==
    <<<<10, "Params", "message">>, <<18, "FeederDelegations", "messages">>,
      <<26, "ExchangeRates", "messages">>, <<34, "MissCounters", "messages">>,
      <<42, "AggregateExchangeRatePrevotes", "messages">>,
      <<50, "AggregateExchangeRateVotes", "messages">>, <<58, "Pairs", "customs">>,
      <<66, "Rewards", "messages">>>>
FeederDelegation ==
    [FeederAddress |-> <<1, "string">>, ValidatorAddress |-> <<2, "string">>]
MarshalFeederDelegation ==
    <<<<10, "FeederAddress", "string">>, <<18, "ValidatorAddress", "string">>>>
MissCounter ==
    [ValidatorAddress |-> <<1, "string">>, MissCounter |-> <<2, "varint">>]
MarshalMissCounter ==
    <<<<10, "ValidatorAddress", "string">>, <<16, "MissCounter", "varint">>>>

\* oracle.pb.go
Params ==
    [VotePeriod |-> <<1, "varint">>, VoteThreshold |-> <<2, "custom">>,
     RewardBand |-> <<3, "custom">>, Whitelist |-> <<4, "customs">>,
     SlashFraction |-> <<5, "custom">>, SlashWindow |-> <<6, "varint">>,
     MinValidPerWindow |-> <<7, "custom">>, TwapLookbackWindow |-> <<8, "duration">>,
     MinVoters |-> <<9, "varint">>, ValidatorFeeRatio |-> <<10, "custom">>]
MarshalParams ==
    <<<<8, "VotePeriod", "varint">>, <<18, "VoteThreshold", "custom">>,
      <<26, "RewardBand", "custom">>, <<34, "Whitelist", "customs">>,
      <<42, "SlashFraction", "custom">>, <<48, "SlashWindow", "varint">>,
      <<58, "MinValidPerWindow", "custom">>, <<66, "TwapLookbackWindow", "duration">>,
      <<72, "MinVoters", "varint">>, <<82, "ValidatorFeeRatio", "custom">>>>
AggregateExchangeRatePrevote ==
    [Hash |-> <<1, "string">>, Voter |-> <<2, "string">>,
     SubmitBlock |-> <<3, "varint">>]
MarshalAggregateExchangeRatePrevote ==
    <<<<10, "Hash", "string">>, <<18, "Voter", "string">>,
      <<24, "SubmitBlock", "varint">>>>
AggregateExchangeRateVote ==
    [ExchangeRateTuples |-> <<1, "messages">>, Voter |-> <<2, "string">>]
MarshalAggregateExchangeRateVote ==
    <<<<10, "ExchangeRateTuples", "messages">>, <<18, "Voter", "string">>>>
ExchangeRateTuple ==
    [Pair |-> <<1, "custom">>, ExchangeRate |-> <<2, "custom">>]
MarshalExchangeRateTuple ==
    <<<<10, "Pair", "custom">>, <<18, "ExchangeRate", "custom">>>>
Rewards ==
    [Id |-> <<1, "varint">>, VotePeriods |-> <<2, "varint">>,
     Coins |-> <<3, "messages">>]
MarshalRewards ==
    <<<<8, "Id", "varint">>, <<16, "VotePeriods", "varint">>,
      <<26, "Coins", "messages">>>>

\* query.pb.go
QueryExchangeRateRequest ==
    [Pair |-> <<1, "custom">>]
MarshalQueryExchangeRateRequest ==
    <<<<10, "Pair", "custom">>>>
QueryExchangeRateResponse ==
    [ExchangeRate |-> <<1, "custom">>]
MarshalQueryExchangeRateResponse ==
    <<<<10, "ExchangeRate", "custom">>>>
QueryExchangeRatesRequest == <<>>
QueryExchangeRatesResponse ==
    [ExchangeRates |-> <<1, "messages">>]
MarshalQueryExchangeRatesResponse ==
    <<<<10, "ExchangeRates", "messages">>>>
QueryActivesRequest == <<>>
QueryActivesResponse ==
    [Actives |-> <<1, "customs">>]
MarshalQueryActivesResponse ==
    <<<<10, "Actives", "customs">>>>
QueryVoteTargetsRequest == <<>>
QueryVoteTargetsResponse ==
    [VoteTargets |-> <<1, "customs">>]
MarshalQueryVoteTargetsResponse ==
    <<<<10, "VoteTargets", "customs">>>>
QueryFeederDelegationRequest ==
    [ValidatorAddr |-> <<1, "string">>]
MarshalQueryFeederDelegationRequest ==
    <<<<10, "ValidatorAddr", "string">>>>
QueryFeederDelegationResponse ==
    [FeederAddr |-> <<1, "string">>]
MarshalQueryFeederDelegationResponse ==
    <<<<10, "FeederAddr", "string">>>>
QueryMissCounterRequest ==
    [ValidatorAddr |-> <<1, "string">>]
MarshalQueryMissCounterRequest ==
    <<<<10, "ValidatorAddr", "string">>>>
QueryMissCounterResponse ==
    [MissCounter |-> <<1, "varint">>]
MarshalQueryMissCounterResponse ==
    <<<<8, "MissCounter", "varint">>>>
QueryAggregatePrevoteRequest ==
    [ValidatorAddr |-> <<1, "string">>]
MarshalQueryAggregatePrevoteRequest ==
    <<<<10, "ValidatorAddr", "string">>>>
QueryAggregatePrevoteResponse ==
    [AggregatePrevote |-> <<1, "message">>]
MarshalQueryAggregatePrevoteResponse ==
    <<<<10, "AggregatePrevote", "message">>>>
QueryAggregatePrevotesRequest == <<>>
QueryAggregatePrevotesResponse ==
    [AggregatePrevotes |-> <<1, "messages">>]
MarshalQueryAggregatePrevotesResponse ==
    <<<<10, "AggregatePrevotes", "messages">>>>
QueryAggregateVoteRequest ==
    [ValidatorAddr |-> <<1, "string">>]
MarshalQueryAggregateVoteRequest ==
    <<<<10, "ValidatorAddr", "string">>>>
QueryAggregateVoteResponse ==
    [AggregateVote |-> <<1, "message">>]
MarshalQueryAggregateVoteResponse ==
    <<<<10, "AggregateVote", "message">>>>
QueryAggregateVotesRequest == <<>>
QueryAggregateVotesResponse ==
    [AggregateVotes |-> <<1, "messages">>]
MarshalQueryAggregateVotesResponse ==
    <<<<10, "AggregateVotes", "messages">>>>
QueryParamsRequest == <<>>
QueryParamsResponse ==
    [Params |-> <<1, "message">>]
MarshalQueryParamsResponse ==
    <<<<10, "Params", "message">>>>

\* state.pb.go
PriceSnapshot ==
    [Pair |-> <<1, "custom">>, Price |-> <<2, "custom">>,
     TimestampMs |-> <<3, "varint">>]
MarshalPriceSnapshot ==
    <<<<10, "Pair", "custom">>, <<18, "Price", "custom">>,
      <<24, "TimestampMs", "varint">>>>

\* tx.pb.go
MsgAggregateExchangeRatePrevote ==
    [Hash |-> <<1, "string">>, Feeder |-> <<2, "string">>,
     Validator |-> <<3, "string">>]
MarshalMsgAggregateExchangeRatePrevote ==
    <<<<10, "Hash", "string">>, <<18, "Feeder", "string">>,
      <<26, "Validator", "string">>>>
MsgAggregateExchangeRatePrevoteResponse == <<>>
MsgAggregateExchangeRateVote ==
    [Salt |-> <<1, "string">>, ExchangeRates |-> <<2, "string">>,
     Feeder |-> <<3, "string">>, Validator |-> <<4, "string">>]
MarshalMsgAggregateExchangeRateVote ==
    <<<<10, "Salt", "string">>, <<18, "ExchangeRates", "string">>,
      <<26, "Feeder", "string">>, <<34, "Validator", "string">>>>
MsgAggregateExchangeRateVoteResponse == <<>>
MsgDelegateFeedConsent ==
    [Operator |-> <<1, "string">>, Delegate |-> <<2, "string">>]
MarshalMsgDelegateFeedConsent ==
    <<<<10, "Operator", "string">>, <<18, "Delegate", "string">>>>
MsgDelegateFeedConsentResponse == <<>>

Unmarshals ==
    [OraclePriceUpdate |-> OraclePriceUpdate, GenesisState |-> GenesisState,
     FeederDelegation |-> FeederDelegation, MissCounter |-> MissCounter,
     Params |-> Params, AggregateExchangeRatePrevote |-> AggregateExchangeRatePrevote,
     AggregateExchangeRateVote |-> AggregateExchangeRateVote,
     ExchangeRateTuple |-> ExchangeRateTuple, Rewards |-> Rewards,
     QueryExchangeRateRequest |-> QueryExchangeRateRequest,
     QueryExchangeRateResponse |-> QueryExchangeRateResponse,
     QueryExchangeRatesRequest |-> QueryExchangeRatesRequest,
     QueryExchangeRatesResponse |-> QueryExchangeRatesResponse,
     QueryActivesRequest |-> QueryActivesRequest,
     QueryActivesResponse |-> QueryActivesResponse,
     QueryVoteTargetsRequest |-> QueryVoteTargetsRequest,
     QueryVoteTargetsResponse |-> QueryVoteTargetsResponse,
     QueryFeederDelegationRequest |-> QueryFeederDelegationRequest,
     QueryFeederDelegationResponse |-> QueryFeederDelegationResponse,
     QueryMissCounterRequest |-> QueryMissCounterRequest,
     QueryMissCounterResponse |-> QueryMissCounterResponse,
     QueryAggregatePrevoteRequest |-> QueryAggregatePrevoteRequest,
     QueryAggregatePrevoteResponse |-> QueryAggregatePrevoteResponse,
     QueryAggregatePrevotesRequest |-> QueryAggregatePrevotesRequest,
     QueryAggregatePrevotesResponse |-> QueryAggregatePrevotesResponse,
     QueryAggregateVoteRequest |-> QueryAggregateVoteRequest,
     QueryAggregateVoteResponse |-> QueryAggregateVoteResponse,
     QueryAggregateVotesRequest |-> QueryAggregateVotesRequest,
     QueryAggregateVotesResponse |-> QueryAggregateVotesResponse,
     QueryParamsRequest |-> QueryParamsRequest,
     QueryParamsResponse |-> QueryParamsResponse, PriceSnapshot |-> PriceSnapshot,
     MsgAggregateExchangeRatePrevote |-> MsgAggregateExchangeRatePrevote,
     MsgAggregateExchangeRatePrevoteResponse |-> MsgAggregateExchangeRatePrevoteResponse,
     MsgAggregateExchangeRateVote |-> MsgAggregateExchangeRateVote,
     MsgAggregateExchangeRateVoteResponse |-> MsgAggregateExchangeRateVoteResponse,
     MsgDelegateFeedConsent |-> MsgDelegateFeedConsent,
     MsgDelegateFeedConsentResponse |-> MsgDelegateFeedConsentResponse]
Marshals ==
    [OraclePriceUpdate |-> MarshalOraclePriceUpdate,
     GenesisState |-> MarshalGenesisState,
     FeederDelegation |-> MarshalFeederDelegation, MissCounter |-> MarshalMissCounter,
     Params |-> MarshalParams,
     AggregateExchangeRatePrevote |-> MarshalAggregateExchangeRatePrevote,
     AggregateExchangeRateVote |-> MarshalAggregateExchangeRateVote,
     ExchangeRateTuple |-> MarshalExchangeRateTuple, Rewards |-> MarshalRewards,
     QueryExchangeRateRequest |-> MarshalQueryExchangeRateRequest,
     QueryExchangeRateResponse |-> MarshalQueryExchangeRateResponse,
     QueryExchangeRatesRequest |-> <<>>,
     QueryExchangeRatesResponse |-> MarshalQueryExchangeRatesResponse,
     QueryActivesRequest |-> <<>>,
     QueryActivesResponse |-> MarshalQueryActivesResponse,
     QueryVoteTargetsRequest |-> <<>>,
     QueryVoteTargetsResponse |-> MarshalQueryVoteTargetsResponse,
     QueryFeederDelegationRequest |-> MarshalQueryFeederDelegationRequest,
     QueryFeederDelegationResponse |-> MarshalQueryFeederDelegationResponse,
     QueryMissCounterRequest |-> MarshalQueryMissCounterRequest,
     QueryMissCounterResponse |-> MarshalQueryMissCounterResponse,
     QueryAggregatePrevoteRequest |-> MarshalQueryAggregatePrevoteRequest,
     QueryAggregatePrevoteResponse |-> MarshalQueryAggregatePrevoteResponse,
     QueryAggregatePrevotesRequest |-> <<>>,
     QueryAggregatePrevotesResponse |-> MarshalQueryAggregatePrevotesResponse,
     QueryAggregateVoteRequest |-> MarshalQueryAggregateVoteRequest,
     QueryAggregateVoteResponse |-> MarshalQueryAggregateVoteResponse,
     QueryAggregateVotesRequest |-> <<>>,
     QueryAggregateVotesResponse |-> MarshalQueryAggregateVotesResponse,
     QueryParamsRequest |-> <<>>, QueryParamsResponse |-> MarshalQueryParamsResponse,
     PriceSnapshot |-> MarshalPriceSnapshot,
     MsgAggregateExchangeRatePrevote |-> MarshalMsgAggregateExchangeRatePrevote,
     MsgAggregateExchangeRatePrevoteResponse |-> <<>>,
     MsgAggregateExchangeRateVote |-> MarshalMsgAggregateExchangeRateVote,
     MsgAggregateExchangeRateVoteResponse |-> <<>>,
     MsgDelegateFeedConsent |-> MarshalMsgDelegateFeedConsent,
     MsgDelegateFeedConsentResponse |-> <<>>]
=============================================================================
