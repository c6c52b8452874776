------------------------------ MODULE WireSudo ------------------------------
(* The tables of the generated codec of sudo, for ProtoWire: for every message
   M what its Unmarshal expects (M) and what its MarshalToSizedBuffer writes
   (MarshalM); a message without fields writes nothing. *)

\* event.pb.go
EventUpdateSudoers ==
    [Sudoers |-> <<1, "message">>, Action |-> <<2, "string">>]
MarshalEventUpdateSudoers ==
    <<<<10, "Sudoers", "message">>, <<18, "Action", "string">>>>

\* query.pb.go
QuerySudoersRequest == <<>>
QuerySudoersResponse ==
    [Sudoers |-> <<1, "message">>]
MarshalQuerySudoersResponse ==
    <<<<10, "Sudoers", "message">>>>

\* state.pb.go
Sudoers ==
    [Root |-> <<1, "string">>, Contracts |-> <<2, "strings">>]
MarshalSudoers ==
    <<<<10, "Root", "string">>, <<18, "Contracts", "strings">>>>
GenesisState ==
    [Sudoers |-> <<1, "message">>]
MarshalGenesisState ==
    <<<<10, "Sudoers", "message">>>>

\* tx.pb.go
MsgEditSudoers ==
    [Action |-> <<1, "string">>, Contracts |-> <<2, "strings">>,
     Sender |-> <<3, "string">>]
MarshalMsgEditSudoers ==
    <<<<10, "Action", "string">>, <<18, "Contracts", "strings">>,
      <<26, "Sender", "string">>>>
MsgEditSudoersResponse == <<>>

Unmarshals ==
    [EventUpdateSudoers |-> EventUpdateSudoers,
     QuerySudoersRequest |-> QuerySudoersRequest,
     QuerySudoersResponse |-> QuerySudoersResponse, Sudoers |-> Sudoers,
     GenesisState |-> GenesisState, MsgEditSudoers |-> MsgEditSudoers,
     MsgEditSudoersResponse |-> MsgEditSudoersResponse]
Marshals ==
    [EventUpdateSudoers |-> MarshalEventUpdateSudoers, QuerySudoersRequest |-> <<>>,
     QuerySudoersResponse |-> MarshalQuerySudoersResponse, Sudoers |-> MarshalSudoers,
     GenesisState |-> MarshalGenesisState, MsgEditSudoers |-> MarshalMsgEditSudoers,
     MsgEditSudoersResponse |-> <<>>]
=============================================================================
