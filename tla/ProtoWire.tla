----------------------------- MODULE ProtoWire ------------------------------
(***************************************************************************)
(* The generated codec of the messages, events, queries and stored state   *)
(* (the *.pb.go files): what Marshal writes, and Unmarshal as the loop it  *)
(* is, reading one field per iteration.  For every message of a package    *)
(* there is a table of the number and kind its Unmarshal expects of each   *)
(* field, and one of the tags, fields and kinds its MarshalToSizedBuffer   *)
(* writes, in the order of the bytes.                                      *)
(*                                                                         *)
(* Bytes are 0..255.  A number is the sequence of its 7-bit groups, least  *)
(* first, without zeros at the end: 64-bit numbers are out of TLC's range. *)
(* The payload of an embedded message, time or custom type (sdk.Dec,       *)
(* asset.Pair) is opaque: its own codec accepts every payload but          *)
(* Malformed.  An embedded message is the concatenation of what its        *)
(* Unmarshal was given, since Unmarshal adds to the message it is called   *)
(* on.                                                                     *)
(***************************************************************************)
EXTENDS Integers, Sequences, SequencesExt, FiniteSets

CONSTANTS
    Decoders,       \* [package -> [message -> [field -> <<number, kind>>]]]
    Encoders,       \* [package -> [message -> Seq(<<tag, field, kind>>)]]
    \* inputs
    Samples,        \* [kind -> a pair of values that are not zero]
    UnknownFields,  \* encodings of fields no message has
    Damage          \* bytes that replace one byte of a damaged buffer

VARIABLES
    type,      \* <<package, message>>
    origin,    \* [from, meant] of the bytes; read by no handler
    dAtA,      \* the bytes
    iNdEx,     \* the next byte to read, from 1
    depth,     \* groups that skip is in
    m,         \* the message being filled
    status,    \* "reading", "ok" or "error"
    turns      \* turns of the loops so far; read by no handler

vars == <<type, origin, dAtA, iNdEx, depth, m, status, turns>>

Numbers == {"varint", "enum", "bool"}
Lists == {"strings", "messages", "customs"}
WireType(kind) == IF kind \in Numbers THEN 0 ELSE 2
Malformed == <<7>>
Kinds == Numbers \cup Lists \cup {"string", "custom", "time", "duration", "message", "pointer"}

\* What a field of a kind holds: the groups of a number, bytes, or a list of these.
ValueOf(kind) == IF kind \in Lists \cup {"pointer"} THEN Seq(Seq(Nat)) ELSE Seq(Nat)

Encoder(t) == Encoders[t[1]][t[2]]
Decoder(t) == Decoders[t[1]][t[2]]
Types == UNION {{<<package, message>> : message \in DOMAIN Decoders[package]} :
                   package \in DOMAIN Decoders}

\* Both tables of a message are of the fields of one struct.
ASSUME TablesAssumption ==
    \A t \in Types :
        /\ \A field \in DOMAIN Decoder(t) : Decoder(t)[field][2] \in Kinds
        /\ Encoder(t) \in Seq(Nat \X (DOMAIN Decoder(t)) \X Kinds)
        /\ \A i \in DOMAIN Encoder(t) :
              Encoder(t)[i][3] = Decoder(t)[Encoder(t)[i][2]][2]
ASSUME InputAssumption ==
    /\ \A kind \in Kinds, k \in 1..2 : Samples[kind][k] \in ValueOf(kind)
    /\ UnknownFields \subseteq Seq(Nat)
    /\ Damage \subseteq Nat

-----------------------------------------------------------------------------
(* Marshal *)

\* An int32 below zero is written as a 64-bit number.
SignExtended(v) ==
    IF Len(v) = 5 /\ v[5] >= 8
    THEN SubSeq(v, 1, 4) \o <<v[5] + 112, 127, 127, 127, 127, 1>>
    ELSE v

EncodeVarint(v) ==
    IF v = <<>> THEN <<0>>
    ELSE [i \in DOMAIN v |-> IF i < Len(v) THEN v[i] + 128 ELSE v[i]]

LengthPrefixed(bytes) ==
    EncodeVarint(IF bytes = <<>> THEN <<>>
                 ELSE IF Len(bytes) < 128 THEN <<Len(bytes)>>
                 ELSE <<Len(bytes) % 128, Len(bytes) \div 128>>) \o bytes

\* What is written for a field, after each tag.  A nil pointer is an empty list.
Chunks(kind, v) ==
    CASE kind = "enum" -> IF v = <<>> THEN <<>> ELSE <<EncodeVarint(SignExtended(v))>>
      [] kind \in {"varint", "bool"} -> IF v = <<>> THEN <<>> ELSE <<EncodeVarint(v)>>
      [] kind = "string" -> IF v = <<>> THEN <<>> ELSE <<LengthPrefixed(v)>>
      [] kind \in {"custom", "time", "duration", "message"} -> <<LengthPrefixed(v)>>
      [] kind \in Lists \cup {"pointer"} -> [i \in DOMAIN v |-> LengthPrefixed(v[i])]

MarshalParts(t, msg) ==
    [i \in DOMAIN Encoder(t) |->
        LET tag == Encoder(t)[i][1]
            chunks == Chunks(Encoder(t)[i][3], msg[Encoder(t)[i][2]])
        IN  FlattenSeq([k \in DOMAIN chunks |-> <<tag>> \o chunks[k]])]

MarshalToSizedBuffer(t, msg) == FlattenSeq(MarshalParts(t, msg))

-----------------------------------------------------------------------------
(* Unmarshal *)

\* Mutant: the end of the buffer also ends a number.
IsLastOrEOF(k) == dAtA[k] < 128 \/ k = Len(dAtA)
IsLast(k) == dAtA[k] < 128
\* The loop that reads a number: ten bytes at most.
CanReadVarint(i) == {k \in i..(i + 9) : k <= Len(dAtA) /\ IsLast(k)} # {}
VarintEnd(i) == CHOOSE k \in i..(i + 9) : IsLast(k) /\ \A j \in i..(k - 1) : ~ IsLast(j)

\* A number of width bits: what is shifted out of it is lost.
ToWidth(groups, width) ==
    LET last == (width + 6) \div 7
        kept == [k \in 1..(IF Len(groups) < last THEN Len(groups) ELSE last) |->
                    IF k = last THEN groups[k] % 2^(width - 7 * (last - 1)) ELSE groups[k]]
        used == {k \in DOMAIN kept : kept[k] # 0}
    IN  SubSeq(kept, 1, IF used = {} THEN 0 ELSE CHOOSE k \in used : \A n \in used : n <= k)

\* (A number of one byte needs no care; TLC evaluates this often.)
ReadVarint(i, width) ==
    IF IsLast(i) THEN (IF dAtA[i] % 128 = 0 THEN <<>> ELSE <<dAtA[i] % 128>>)
    ELSE ToWidth([k \in 1..(VarintEnd(i) - i + 1) |-> dAtA[i + k - 1] % 128], width)

Group(v, k) == IF k <= Len(v) THEN v[k] ELSE 0
TagWireType(v) == Group(v, 1) % 8
\* int32(wire >> 3); a negative one is -1.
TagFieldNum(v) ==
    IF Group(v, 5) >= 64 THEN -1
    ELSE Group(v, 1) \div 8 + 2^4 * Group(v, 2) + 2^11 * Group(v, 3)
         + 2^18 * Group(v, 4) + 2^25 * Group(v, 5)

\* A length of 2^28 or more is either negative or past the end.
TooLong(v) == Len(v) > 4
Length(v) ==
    Group(v, 1) + 2^7 * Group(v, 2) + 2^14 * Group(v, 3) + 2^21 * Group(v, 4)

\* A length and as many bytes: where they end, and whether they are all there.
PostIndex(i) == VarintEnd(i) + 1 + Length(ReadVarint(i, 64))
CanReadBytes(i) ==
    /\ CanReadVarint(i)
    /\ ~ TooLong(ReadVarint(i, 64))
    /\ PostIndex(i) <= Len(dAtA) + 1
Bytes(i) == SubSeq(dAtA, VarintEnd(i) + 1, PostIndex(i) - 1)

\* Mutant: the index goes back to the start of the field and stays there.
SkipElementStays(i) == i
\* One turn of the loop of skip: where the element at i ends; 0 is an error.
SkipElement(i) ==
    LET value == VarintEnd(i) + 1
        wireType == TagWireType(ReadVarint(i, 64))
    IN  IF ~ CanReadVarint(i) THEN 0
        ELSE CASE wireType = 0 -> IF CanReadVarint(value) THEN VarintEnd(value) + 1 ELSE 0
               [] wireType = 1 -> value + 8
               [] wireType = 2 -> IF CanReadVarint(value) /\ ~ TooLong(ReadVarint(value, 64))
                                  THEN PostIndex(value) ELSE 0
               [] wireType = 3 -> value
               [] wireType = 4 -> IF depth = 0 THEN 0 ELSE value
               [] wireType = 5 -> value + 4
               [] OTHER -> 0

GroupChange(i) ==
    LET wireType == TagWireType(ReadVarint(i, 64))
    IN  IF wireType = 3 THEN 1 ELSE IF wireType = 4 THEN -1 ELSE 0

Kind(field) == Decoder(type)[field][2]

\* A fresh message.
Zero(t) == [field \in DOMAIN Decoder(t) |-> <<>>]

\* Mutant: an embedded message is replaced.
TakenReplacing(kind, v, bytes) ==
    CASE kind = "pointer" -> <<bytes>>
      [] kind \in Lists -> Append(v, bytes)
      [] OTHER -> bytes
\* A string, a time and a custom type are replaced; an embedded message is added
\* to; a list is appended to.
Taken(kind, v, bytes) ==
    CASE kind = "message" -> v \o bytes
      [] kind = "pointer" -> IF v = <<>> THEN <<bytes>> ELSE <<v[1] \o bytes>>
      [] kind \in Lists -> Append(v, bytes)
      [] OTHER -> bytes
Accepts(kind, bytes) == kind \in {"string", "strings"} \/ bytes # Malformed

TakenNumber(kind, i) ==
    CASE kind = "varint" -> ReadVarint(i, 64)
      [] kind = "enum" -> ReadVarint(i, 32)
      [] kind = "bool" -> IF ReadVarint(i, 64) = <<>> THEN <<>> ELSE <<1>>

Reading == status = "reading" /\ iNdEx <= Len(dAtA)
Tag == ReadVarint(iNdEx, 64)
Value == VarintEnd(iNdEx) + 1
CanReadTag ==
    /\ depth = 0
    /\ CanReadVarint(iNdEx)
    /\ TagWireType(Tag) # 4
    /\ TagFieldNum(Tag) > 0

\* The field of the case of the switch, if there is one.
Fields == {field \in DOMAIN Decoder(type) : Decoder(type)[field][1] = TagFieldNum(Tag)}

CanReadNumber(field) ==
    /\ Kind(field) \in Numbers
    /\ TagWireType(Tag) = 0
    /\ CanReadVarint(Value)
ReadNumber ==
    /\ Reading
    /\ CanReadTag
    /\ \E field \in Fields :
          /\ CanReadNumber(field)
          /\ m' = [m EXCEPT ![field] = TakenNumber(Kind(field), Value)]
    /\ iNdEx' = VarintEnd(Value) + 1
    /\ turns' = turns + 1
    /\ UNCHANGED <<type, origin, dAtA, depth, status>>

CanReadPayload(field) ==
    /\ Kind(field) \notin Numbers
    /\ TagWireType(Tag) = 2
    /\ CanReadBytes(Value)
    /\ Accepts(Kind(field), Bytes(Value))
ReadPayload ==
    /\ Reading
    /\ CanReadTag
    /\ \E field \in Fields :
          /\ CanReadPayload(field)
          /\ m' = [m EXCEPT ![field] = Taken(Kind(field), @, Bytes(Value))]
    /\ iNdEx' = PostIndex(Value)
    /\ turns' = turns + 1
    /\ UNCHANGED <<type, origin, dAtA, depth, status>>

\* A field without a case, or the inside of a group.
Unknown == depth > 0 \/ (CanReadTag /\ Fields = {})
CanSkip == SkipElement(iNdEx) \in 1..(Len(dAtA) + 1)
SkipUnknown ==
    /\ Reading
    /\ Unknown
    /\ CanSkip
    /\ iNdEx' = SkipElement(iNdEx)
    /\ depth' = depth + GroupChange(iNdEx)
    /\ turns' = turns + 1
    /\ UNCHANGED <<type, origin, dAtA, m, status>>

CanReadOn ==
    \/ Unknown /\ CanSkip
    \/ CanReadTag /\ \E field \in Fields : CanReadNumber(field) \/ CanReadPayload(field)

\* Every return of an error in the loops.
ReturnError ==
    /\ Reading
    /\ ~ CanReadOn
    /\ status' = "error"
    /\ UNCHANGED <<type, origin, dAtA, iNdEx, depth, m, turns>>

\* The end of the loop; inside a group it is too early.
Return ==
    /\ status = "reading"
    /\ iNdEx > Len(dAtA)
    /\ status' = IF depth > 0 \/ iNdEx > Len(dAtA) + 1 THEN "error" ELSE "ok"
    /\ UNCHANGED <<type, origin, dAtA, iNdEx, depth, m, turns>>

\* The message is written to a store and read from it again.
Store ==
    /\ status = "ok"
    /\ origin.from # "store"
    /\ origin' = [from |-> "store", meant |-> m]
    /\ dAtA' = MarshalToSizedBuffer(type, m)
    /\ m' = Zero(type)
    /\ iNdEx' = 1
    /\ turns' = 0
    /\ status' = "reading"
    /\ UNCHANGED <<type, depth>>

-----------------------------------------------------------------------------
(* The bytes a node is given. *)

Whole(t, k) == [field \in DOMAIN Decoder(t) |-> Samples[Decoder(t)[field][2]][k]]
Messages(t) ==
    {Zero(t), Whole(t, 1), Whole(t, 2)} \cup
    {[Zero(t) EXCEPT ![field] = Whole(t, k)[field]] : field \in DOMAIN Decoder(t), k \in 1..2}

\* The message meant by the bytes of one after those of another.
Merged(t, first, second) ==
    [field \in DOMAIN Decoder(t) |->
        LET kind == Decoder(t)[field][2]
        IN  IF kind \in Lists \cup {"message"} THEN first[field] \o second[field]
            ELSE IF kind = "pointer" /\ first[field] # <<>> /\ second[field] # <<>>
            THEN <<first[field][1] \o second[field][1]>>
            ELSE IF kind \in {"custom", "time", "duration"} \/ second[field] # <<>>
            THEN second[field]
            ELSE first[field]]

\* unknown between two fields of msg.
Extended(t, msg, k, unknown) ==
    LET parts == MarshalParts(t, msg)
    IN  FlattenSeq(SubSeq(parts, 1, k)) \o unknown
        \o FlattenSeq(SubSeq(parts, k + 1, Len(parts)))

Given(from, meant, bytes) ==
    origin = [from |-> from, meant |-> meant] /\ dAtA = bytes

Init ==
    /\ type \in Types
    /\ \/ \E msg \in Messages(type) :
             Given("peer", msg, MarshalToSizedBuffer(type, msg))
       \/ \E msg \in Messages(type), k \in 1..2 :
             Given("peer", Merged(type, Whole(type, k), msg),
                   MarshalToSizedBuffer(type, Whole(type, k))
                   \o MarshalToSizedBuffer(type, msg))
       \/ \E k \in 0..Len(Encoder(type)), unknown \in UnknownFields :
             Given("peer", Whole(type, 1), Extended(type, Whole(type, 1), k, unknown))
       \/ \E msg \in {Whole(type, 1), Whole(type, 2)} :
             LET bytes == MarshalToSizedBuffer(type, msg) IN
             \/ \E k \in 1..(Len(bytes) - 1) : Given("cut", msg, SubSeq(bytes, 1, k))
             \/ \E k \in 1..Len(bytes), byte \in Damage :
                   Given("damaged", msg, [bytes EXCEPT ![k] = byte])
    /\ m = Zero(type)
    /\ iNdEx = 1
    /\ depth = 0
    /\ status = "reading"
    /\ turns = 0

\* Only a message that was refused, or read from the store, is left as it is.
Finished ==
    /\ status = "error" \/ (status = "ok" /\ origin.from = "store")
    /\ UNCHANGED vars

Next ==
    \/ ReadNumber \/ ReadPayload \/ SkipUnknown \/ ReturnError \/ Return
    \/ Store \/ Finished

Spec == Init /\ [][Next]_vars

-----------------------------------------------------------------------------
(* Properties. *)

\* Every byte Unmarshal reads is one of the buffer's, also in a damaged buffer.
TypeOK ==
    /\ iNdEx \in 1..(Len(dAtA) + 1)
    /\ DOMAIN m = DOMAIN Decoder(type)
    /\ status \in {"reading", "ok", "error"}

\* What Marshal wrote is read as what was meant, for every message of the program:
\* alone, after the bytes of another message of its type, with fields between that
\* only a newer version knows, and when a message that was accepted from a damaged
\* buffer is stored and read again.
MarshalledIsUnderstood ==
    origin.from \in {"peer", "store"} =>
        /\ status # "error"
        /\ status = "ok" => m = origin.meant

\* A buffer that was cut short is refused, or gives the message without its last
\* fields and list elements; no field gets a value that was not sent.
CutIsPrefix ==
    origin.from = "cut" /\ status = "ok" =>
        LET sent(i) == Encoder(type)[i][2] IN
        /\ \A field \in DOMAIN m :
              \/ m[field] \in {<<>>, origin.meant[field]}
              \/ Kind(field) \in Lists /\ IsPrefix(m[field], origin.meant[field])
        /\ \A i, j \in DOMAIN Encoder(type) :
              i < j /\ m[sent(i)] # origin.meant[sent(i)] => m[sent(j)] = <<>>

\* Unmarshal returns, whatever the bytes are: every turn of its loop, and of the
\* loop of skip, takes at least one byte and none past the end of the buffer
\* (TypeOK), and no state before a return is stuck.
EveryTurnAdvances == TypeOK /\ turns < iNdEx
=============================================================================
