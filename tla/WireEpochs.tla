----------------------------- MODULE WireEpochs -----------------------------
(* The tables of the generated codec of epochs, for ProtoWire: for every message
   M what its Unmarshal expects (M) and what its MarshalToSizedBuffer writes
   (MarshalM); a message without fields writes nothing. *)

\* event.pb.go
EventEpochStart ==
    [EpochNumber |-> <<1, "varint">>, EpochStartTime |-> <<2, "time">>]
MarshalEventEpochStart ==
    <<<<8, "EpochNumber", "varint">>, <<18, "EpochStartTime", "time">>>>
EventEpochEnd ==
    [EpochNumber |-> <<1, "varint">>]
MarshalEventEpochEnd ==
    <<<<8, "EpochNumber", "varint">>>>

\* genesis.pb.go
GenesisState ==
    [Epochs |-> <<1, "messages">>]
MarshalGenesisState ==
    <<<<10, "Epochs", "messages">>>>

\* query.pb.go
QueryEpochsInfoRequest == <<>>
QueryEpochsInfoResponse ==
    [Epochs |-> <<1, "messages">>]
MarshalQueryEpochsInfoResponse ==
    <<<<10, "Epochs", "messages">>>>
QueryCurrentEpochRequest ==
    [Identifier |-> <<1, "string">>]
MarshalQueryCurrentEpochRequest ==
    <<<<10, "Identifier", "string">>>>
QueryCurrentEpochResponse ==
    [CurrentEpoch |-> <<1, "varint">>]
MarshalQueryCurrentEpochResponse ==
    <<<<8, "CurrentEpoch", "varint">>>>

\* state.pb.go
EpochInfo ==
    [Identifier |-> <<1, "string">>, StartTime |-> <<2, "time">>,
     Duration |-> <<3, "duration">>, CurrentEpoch |-> <<4, "varint">>,
     CurrentEpochStartTime |-> <<5, "time">>, EpochCountingStarted |-> <<6, "bool">>,
     CurrentEpochStartHeight |-> <<7, "varint">>]
MarshalEpochInfo ==
    <<<<10, "Identifier", "string">>, <<18, "StartTime", "time">>,
      <<26, "Duration", "duration">>, <<32, "CurrentEpoch", "varint">>,
      <<42, "CurrentEpochStartTime", "time">>, <<48, "EpochCountingStarted", "bool">>,
      <<56, "CurrentEpochStartHeight", "varint">>>>

Unmarshals ==
    [EventEpochStart |-> EventEpochStart, EventEpochEnd |-> EventEpochEnd,
     GenesisState |-> GenesisState, QueryEpochsInfoRequest |-> QueryEpochsInfoRequest,
     QueryEpochsInfoResponse |-> QueryEpochsInfoResponse,
     QueryCurrentEpochRequest |-> QueryCurrentEpochRequest,
     QueryCurrentEpochResponse |-> QueryCurrentEpochResponse, EpochInfo |-> EpochInfo]
Marshals ==
    [EventEpochStart |-> MarshalEventEpochStart,
     EventEpochEnd |-> MarshalEventEpochEnd, GenesisState |-> MarshalGenesisState,
     QueryEpochsInfoRequest |-> <<>>,
     QueryEpochsInfoResponse |-> MarshalQueryEpochsInfoResponse,
     QueryCurrentEpochRequest |-> MarshalQueryCurrentEpochRequest,
     QueryCurrentEpochResponse |-> MarshalQueryCurrentEpochResponse,
     EpochInfo |-> MarshalEpochInfo]
=============================================================================
