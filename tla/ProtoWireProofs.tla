-------------------------- MODULE ProtoWireProofs ---------------------------
(***************************************************************************)
(* The loops of the generated Unmarshal and of skip return, for every      *)
(* message, table of fields and buffer: every turn takes a byte and none   *)
(* reads past the end (EveryTurnAdvances).                                 *)
(***************************************************************************)
EXTENDS ProtoWire, WellFoundedInduction, TLAPS

\* Every non-empty set of natural numbers has a least element,
LEMMA LeastNatural ==
    ASSUME NEW S, S \subseteq Nat, S # {}
    PROVE  \E k \in S : \A j \in S : k <= j
<1> DEFINE R == OpToRel(<, Nat)
<1>1. IsWellFoundedOn(R, Nat)
  BY NatLessThanWellFounded
<1>2. PICK k \in S : \A j \in S : ~ (<<j, k>> \in R)
  <2> HIDE DEF R
  <2> QED BY <1>1, WFMin
<1>3. \A j \in S : ~ (j < k)
  BY <1>2 DEF OpToRel
<1> QED BY <1>3

\* and one that is bounded has a greatest.
LEMMA GreatestNatural ==
    ASSUME NEW n \in Nat, NEW S, S \subseteq 1..n, S # {}
    PROVE  \E k \in S : \A j \in S : j <= k
<1> DEFINE B == {b \in Nat : \A j \in S : j <= b}
<1>1. PICK b \in B : \A c \in B : b <= c
  <2>1. n \in B /\ B \subseteq Nat
    OBVIOUS
  <2> HIDE DEF B
  <2> QED BY <2>1, LeastNatural
<1>2. CASE b \in S
  BY <1>2
<1>3. CASE b \notin S
  <2>1. \A j \in S : j < b
    BY <1>3
  <2>2. \A j \in S : j \in Nat
    OBVIOUS
  <2>3. b \in Nat
    OBVIOUS
  <2>4. b - 1 \in Nat
    <3>1. PICK j \in S : TRUE
      OBVIOUS
    <3>2. j \in Nat /\ j < b
      BY <2>1, <2>2, <3>1
    <3> HIDE DEF B
    <3> QED BY <2>3, <3>2
  <2>5. \A j \in S : j <= b - 1
    BY <2>1, <2>2, <2>3
  <2>6. b - 1 \in B
    BY <2>4, <2>5
  <2>7. b <= b - 1
    BY <1>1, <2>6
  <2> QED BY <2>3, <2>7
<1> QED BY <1>2, <1>3

-----------------------------------------------------------------------------
(* Sequences. *)

\* The elements of a sequence
LEMMA SeqElement ==
    ASSUME NEW S, NEW s \in Seq(S)
    PROVE  DOMAIN s = 1..Len(s) /\ Len(s) \in Nat /\ \A i \in DOMAIN s : s[i] \in S
OBVIOUS

\* Parts and concatenations of sequences.
LEMMA SeqParts ==
    ASSUME NEW S, NEW s \in Seq(S), NEW j \in Nat, NEW k \in Nat, j >= 1, k <= Len(s)
    PROVE  SubSeq(s, j, k) \in Seq(S)
OBVIOUS
\* The concatenation of two sequences.
LEMMA SeqConcat ==
    ASSUME NEW S, NEW s \in Seq(S), NEW t \in Seq(S)
    PROVE  s \o t \in Seq(S)
OBVIOUS

\* The recursion of FlattenSeq.
IsFlatten(g, s, n) == g = [i \in 1..n |-> IF i = 1 THEN s[i] ELSE g[i - 1] \o s[i]]

\* It is well founded,
LEMMA FlattenExists ==
    ASSUME NEW s, NEW n \in Nat
    PROVE  \E g : IsFlatten(g, s, n)
<1> DEFINE Bad == {k \in Nat : ~ \E g : IsFlatten(g, s, k)}
<1> SUFFICES ASSUME Bad # {} PROVE FALSE
  OBVIOUS
<1>1. PICK k \in Bad : \A j \in Bad : k <= j
  BY LeastNatural
<1>2. k # 0
  <2> DEFINE h == [i \in 1..0 |-> <<>>]
  <2>1. IsFlatten(h, s, 0)
    BY DEF IsFlatten
  <2> QED BY <2>1
<1>3. k - 1 \in Nat /\ k - 1 \notin Bad
  BY <1>1, <1>2
<1>4. PICK g : IsFlatten(g, s, k - 1)
  BY <1>3
<1> DEFINE h == [i \in 1..k |-> IF i < k THEN g[i] ELSE IF i = 1 THEN s[i] ELSE g[i - 1] \o s[i]]
<1>5. IsFlatten(h, s, k)
  <2>1. \A i \in 1..k : h[i] = IF i = 1 THEN s[i] ELSE h[i - 1] \o s[i]
    <3> SUFFICES ASSUME NEW i \in 1..k
                 PROVE  h[i] = IF i = 1 THEN s[i] ELSE h[i - 1] \o s[i]
      OBVIOUS
    <3>1. i # 1 => i - 1 \in 1..k /\ i - 1 < k /\ h[i - 1] = g[i - 1]
      BY <1>3
    <3>2. CASE i < k
      <4>1. i \in 1..(k - 1)
        BY <1>3, <3>2
      <4>2. g[i] = IF i = 1 THEN s[i] ELSE g[i - 1] \o s[i]
        BY <1>4, <4>1, Zenon DEF IsFlatten
      <4>3. h[i] = g[i]
        BY <3>2
      <4> QED BY <3>1, <4>2, <4>3, Zenon
    <3>3. CASE i = k
      <4>1. h[i] = IF i = 1 THEN s[i] ELSE g[i - 1] \o s[i]
        BY <1>3, <3>3
      <4> QED BY <3>1, <4>1, Zenon
    <3> QED BY <3>2, <3>3
  <2> HIDE DEF Bad
  <2> DEFINE e(i) == IF i = 1 THEN s[i] ELSE h[i - 1] \o s[i]
  <2>2. h = [i \in 1..k |-> e(i)]
    BY <2>1
  <2> QED BY <2>2 DEF IsFlatten
<1> QED BY <1>5

\* and concatenates sequences of elements to a sequence of elements.
LEMMA FlattenType ==
    ASSUME NEW S, NEW s \in Seq(Seq(S))
    PROVE  FlattenSeq(s) \in Seq(S)
<1> DEFINE n == Len(s)
<1>1. n \in Nat /\ \A i \in 1..n : s[i] \in Seq(S)
  OBVIOUS
<1>2. CASE n = 0
  <2>1. s = <<>>
    BY <1>2
  <2> QED BY <1>2, <2>1 DEF FlattenSeq
<1>3. CASE n # 0
  <2> DEFINE g == CHOOSE g : IsFlatten(g, s, n)
  <2>1. IsFlatten(g, s, n)
    BY <1>1, FlattenExists
  <2>2. FlattenSeq(s) = g[n]
    BY <1>3 DEF FlattenSeq, IsFlatten
  <2> HIDE DEF g, n
  <2> DEFINE Bad == {i \in 1..n : g[i] \notin Seq(S)}
  <2>3. CASE Bad = {}
    BY <1>1, <1>3, <2>2, <2>3
  <2>4. CASE Bad # {}
    <3>1. Bad \subseteq Nat
      BY <1>1
    <3>2. PICK k \in Bad : \A j \in Bad : k <= j
      BY <2>4, <3>1, LeastNatural
    <3>3. k \in 1..n /\ g[k] \notin Seq(S)
      OBVIOUS
    <3>4. g[k] = IF k = 1 THEN s[k] ELSE g[k - 1] \o s[k]
      BY <2>1, <3>3, Zenon DEF IsFlatten
    <3>5. k # 1 => g[k - 1] \in Seq(S)
      BY <1>1, <3>2, <3>3
    <3>6. s[k] \in Seq(S)
      BY <1>1, <3>3, Zenon
    <3> HIDE DEF Bad
    <3>7. g[k] \in Seq(S)
      BY <3>4, <3>5, <3>6, SeqConcat, Zenon
    <3> QED BY <3>3, <3>7
  <2> QED BY <2>3, <2>4
<1> QED BY <1>2, <1>3

-----------------------------------------------------------------------------
(* Numbers in the buffer. *)

IsBuffer == dAtA \in Seq(Nat)

\* VarintEnd is the first byte without the continuation bit, which is in the buffer.
LEMMA VarintEndIs ==
    ASSUME IsBuffer, NEW i \in Nat, i >= 1, CanReadVarint(i)
    PROVE  /\ VarintEnd(i) \in Nat
           /\ i <= VarintEnd(i) /\ VarintEnd(i) <= Len(dAtA)
           /\ VarintEnd(i) <= i + 9
<1> DEFINE K == {k \in i..(i + 9) : IsLast(k)}
           P(k) == IsLast(k) /\ \A j \in i..(k - 1) : ~ IsLast(j)
<1>1. PICK e \in i..(i + 9) : e <= Len(dAtA) /\ IsLast(e)
  BY DEF CanReadVarint
<1>2. Len(dAtA) \in Nat
  BY DEF IsBuffer
<1>3. K \subseteq Nat /\ e \in K
  BY <1>1
<1>4. PICK f \in K : \A j \in K : f <= j
  BY <1>3, LeastNatural
<1>5. f \in i..(i + 9) /\ P(f)
  BY <1>4
<1>6. \E k \in i..(i + 9) : P(k)
  BY <1>5
<1> DEFINE v == CHOOSE k \in i..(i + 9) : P(k)
<1>7. v \in i..(i + 9) /\ P(v)
  BY <1>6
<1>8. VarintEnd(i) = v
  BY DEF VarintEnd
<1> HIDE DEF v, K
<1>9. v <= e
  <2>1. CASE v <= e
    BY <2>1
  <2>2. CASE e < v
    <3>1. e \in i..(v - 1)
      BY <1>1, <1>7, <2>2
    <3> QED BY <1>1, <1>7, <3>1
  <2> QED BY <1>1, <1>7, <2>1, <2>2
<1>10. v \in Nat /\ i <= v /\ v <= i + 9
  BY <1>7
<1> QED BY <1>1, <1>2, <1>8, <1>9, <1>10

\* What is kept of a number has natural groups.
LEMMA ToWidthType ==
    ASSUME NEW groups \in Seq(Nat), NEW width \in {32, 64}
    PROVE  ToWidth(groups, width) \in Seq(Nat)
<1> DEFINE last == (width + 6) \div 7
           top == 2^(width - 7 * (last - 1))
           l == IF Len(groups) < last THEN Len(groups) ELSE last
           kept == [k \in 1..l |-> IF k = last THEN groups[k] % top ELSE groups[k]]
           used == {k \in DOMAIN kept : kept[k] # 0}
           n == IF used = {} THEN 0 ELSE CHOOSE k \in used : \A j \in used : j <= k
<1>1. last \in Nat \ {0} /\ top \in Nat \ {0}
  <2>1. CASE width = 32
    <3>1. last = 5 /\ top = 2^4
      BY <2>1
    <3>2. 2^4 \in Nat \ {0}
      BY SMT
    <3> QED BY <3>1, <3>2
  <2>2. CASE width = 64
    <3>1. last = 10 /\ top = 2^1
      BY <2>2
    <3>2. 2^1 \in Nat \ {0}
      BY SMT
    <3> QED BY <3>1, <3>2
  <2> QED BY <2>1, <2>2
<1>2. ToWidth(groups, width) = SubSeq(kept, 1, n)
  BY DEF ToWidth
<1> HIDE DEF top, last
<1>3. l \in Nat /\ l <= Len(groups)
  BY <1>1
<1> HIDE DEF l
<1>4. \A k \in 1..l : kept[k] \in Nat
  <2> SUFFICES ASSUME NEW k \in 1..l PROVE kept[k] \in Nat
    OBVIOUS
  <2>1. groups[k] \in Nat
    BY <1>3
  <2>2. groups[k] % top \in Nat
    BY <1>1, <2>1
  <2> QED BY <2>1, <2>2
<1>5. kept \in Seq(Nat) /\ Len(kept) = l /\ DOMAIN kept = 1..l
  <2>1. kept \in [1..l -> Nat]
    BY <1>4
  <2> HIDE DEF kept
  <2> QED BY <1>3, <2>1
<1> HIDE DEF kept
<1>6. n \in Nat /\ n <= l
  <2>1. CASE used = {}
    BY <1>3, <2>1
  <2>2. CASE used # {}
    <3>1. used \subseteq 1..l
      BY <1>5
    <3>2. \E k \in used : \A j \in used : j <= k
      <4> HIDE DEF used
      <4> QED BY <1>3, <2>2, <3>1, GreatestNatural
    <3>3. n \in used
      <4> HIDE DEF used
      <4> QED BY <2>2, <3>2
    <3> QED BY <1>3, <3>1, <3>3
  <2> QED BY <2>1, <2>2
<1> HIDE DEF n
<1> QED BY <1>2, <1>5, <1>6, SeqParts

\* A number that is read has natural groups.
LEMMA ReadVarintType ==
    ASSUME IsBuffer, NEW i \in Nat, i >= 1, CanReadVarint(i), NEW width \in {32, 64}
    PROVE  ReadVarint(i, width) \in Seq(Nat)
<1>1. /\ VarintEnd(i) \in Nat /\ i <= VarintEnd(i) /\ VarintEnd(i) <= Len(dAtA)
      /\ Len(dAtA) \in Nat
  BY VarintEndIs DEF IsBuffer
<1>2. \A k \in 1..Len(dAtA) : dAtA[k] \in Nat /\ dAtA[k] % 128 \in Nat
  <2>1. \A k \in 1..Len(dAtA) : dAtA[k] \in Nat
    BY DEF IsBuffer
  <2>2. \A b \in Nat : b % 128 \in Nat
    OBVIOUS
  <2> QED BY <2>1, <2>2, Zenon
<1>3. CASE IsLast(i)
  <2>1. ReadVarint(i, width) = IF dAtA[i] % 128 = 0 THEN <<>> ELSE <<dAtA[i] % 128>>
    BY <1>3 DEF ReadVarint
  <2>2. i \in 1..Len(dAtA)
    BY <1>1
  <2>3. dAtA[i] % 128 \in Nat
    BY <1>2, <2>2, Zenon
  <2> QED BY <2>1, <2>3
<1>4. CASE ~ IsLast(i)
  <2> DEFINE n == VarintEnd(i) - i + 1
             groups == [k \in 1..n |-> dAtA[i + k - 1] % 128]
  <2>1. ReadVarint(i, width) = ToWidth(groups, width)
    BY <1>4 DEF ReadVarint
  <2>2. n \in Nat /\ \A k \in 1..n : i + k - 1 \in 1..Len(dAtA)
    BY <1>1
  <2> HIDE DEF n
  <2>3. \A k \in 1..n : dAtA[i + k - 1] % 128 \in Nat
    BY <1>2, <2>2, Zenon
  <2>4. groups \in [1..n -> Nat]
    BY <2>3
  <2> HIDE DEF groups
  <2>5. groups \in Seq(Nat)
    BY <2>2, <2>4
  <2> QED BY <2>1, <2>5, ToWidthType
<1> QED BY <1>3, <1>4

\* A length is a natural number.
LEMMA LengthType ==
    ASSUME NEW v \in Seq(Nat)
    PROVE  Length(v) \in Nat
<1>1. \A k \in {1, 2, 3, 4} : Group(v, k) \in Nat
  BY DEF Group
<1>2. 2^7 \in Nat /\ 2^14 \in Nat /\ 2^21 \in Nat
  BY SMT
<1> DEFINE a == 2^7 * Group(v, 2)
           b == 2^14 * Group(v, 3)
           c == 2^21 * Group(v, 4)
<1>3. a \in Nat /\ b \in Nat /\ c \in Nat
  <2>1. \A x \in Nat, y \in Nat : x * y \in Nat
    BY SMT
  <2> QED BY <1>1, <1>2, <2>1
<1>4. Length(v) = Group(v, 1) + a + b + c
  BY DEF Length
<1> HIDE DEF a, b, c
<1> QED BY <1>1, <1>3, <1>4

\* A length and its bytes end after where they begin.
LEMMA PostIndexIs ==
    ASSUME IsBuffer, NEW i \in Nat, i >= 1, CanReadVarint(i)
    PROVE  PostIndex(i) \in Nat /\ i < PostIndex(i) /\ VarintEnd(i) + 1 <= PostIndex(i)
<1>1. VarintEnd(i) \in Nat /\ i <= VarintEnd(i)
  BY VarintEndIs
<1>2. Length(ReadVarint(i, 64)) \in Nat
  BY ReadVarintType, LengthType
<1> DEFINE n == Length(ReadVarint(i, 64))
<1>3. PostIndex(i) = VarintEnd(i) + 1 + n
  BY DEF PostIndex
<1> HIDE DEF n
<1> QED BY <1>1, <1>2, <1>3 DEF n

\* The bytes after a length.
LEMMA BytesType ==
    ASSUME IsBuffer, NEW i \in Nat, i >= 1, CanReadBytes(i)
    PROVE  Bytes(i) \in Seq(Nat)
<1>1. CanReadVarint(i) /\ PostIndex(i) <= Len(dAtA) + 1
  BY DEF CanReadBytes
<1>2. /\ PostIndex(i) \in Nat /\ VarintEnd(i) \in Nat /\ VarintEnd(i) + 1 <= PostIndex(i)
      /\ Len(dAtA) \in Nat
  BY <1>1, PostIndexIs, VarintEndIs DEF IsBuffer
<1> DEFINE j == VarintEnd(i) + 1
           k == PostIndex(i) - 1
<1>3. j \in Nat /\ k \in Nat /\ j >= 1 /\ k <= Len(dAtA)
  BY <1>1, <1>2
<1>4. Bytes(i) = SubSeq(dAtA, j, k)
  BY DEF Bytes
<1> HIDE DEF j, k
<1> QED BY <1>3, <1>4, SeqParts DEF IsBuffer

\* A turn of skip that is not an error ends after where it begins.
LEMMA SkipAdvances ==
    ASSUME IsBuffer, NEW i \in Nat, i >= 1, SkipElement(i) # 0
    PROVE  SkipElement(i) \in Nat /\ i < SkipElement(i)
<1> DEFINE value == VarintEnd(i) + 1
           wireType == TagWireType(ReadVarint(i, 64))
<1>1. CanReadVarint(i)
  BY DEF SkipElement
<1>2. value \in Nat /\ i < value /\ value >= 1
  BY <1>1, VarintEndIs
<1>3. ASSUME CanReadVarint(value)
      PROVE  /\ VarintEnd(value) + 1 \in Nat /\ i < VarintEnd(value) + 1
             /\ PostIndex(value) \in Nat /\ i < PostIndex(value)
  <2> HIDE DEF value
  <2>1. VarintEnd(value) \in Nat /\ value <= VarintEnd(value)
    BY <1>2, <1>3, VarintEndIs
  <2>2. PostIndex(value) \in Nat /\ value < PostIndex(value)
    BY <1>2, <1>3, PostIndexIs
  <2> QED BY <1>2, <2>1, <2>2
<1>4. SkipElement(i) =
        CASE wireType = 0 -> IF CanReadVarint(value) THEN VarintEnd(value) + 1 ELSE 0
          [] wireType = 1 -> value + 8
          [] wireType = 2 -> IF CanReadVarint(value) /\ ~ TooLong(ReadVarint(value, 64))
                             THEN PostIndex(value) ELSE 0
          [] wireType = 3 -> value
          [] wireType = 4 -> IF depth = 0 THEN 0 ELSE value
          [] wireType = 5 -> value + 4
          [] OTHER -> 0
  BY <1>1, Zenon DEF SkipElement
<1> HIDE DEF value, wireType
<1>5. \/ SkipElement(i) = 0
      \/ CanReadVarint(value) /\ SkipElement(i) \in {VarintEnd(value) + 1, PostIndex(value)}
      \/ SkipElement(i) \in {value, value + 4, value + 8}
  BY <1>4
<1> QED BY <1>2, <1>3, <1>5

-----------------------------------------------------------------------------
(* What Marshal writes. *)

\* The bytes of a number,
LEMMA EncodeVarintType ==
    ASSUME NEW v \in Seq(Nat)
    PROVE  EncodeVarint(v) \in Seq(Nat)
<1>1. CASE v = <<>>
  BY <1>1 DEF EncodeVarint
<1>2. CASE v # <<>>
  <2> DEFINE f == [i \in DOMAIN v |-> IF i < Len(v) THEN v[i] + 128 ELSE v[i]]
  <2>1. EncodeVarint(v) = f
    BY <1>2 DEF EncodeVarint
  <2>2. DOMAIN v = 1..Len(v) /\ Len(v) \in Nat /\ \A i \in DOMAIN v : v[i] \in Nat
    OBVIOUS
  <2>3. f \in [1..Len(v) -> Nat]
    BY <2>2
  <2> HIDE DEF f
  <2>4. f \in Seq(Nat)
    BY <2>2, <2>3
  <2> QED BY <2>1, <2>4
<1> QED BY <1>1, <1>2

\* of an int32,
LEMMA SignExtendedType ==
    ASSUME NEW v \in Seq(Nat)
    PROVE  SignExtended(v) \in Seq(Nat)
<1>1. CASE Len(v) = 5 /\ v[5] >= 8
  <2>1. 5 \in DOMAIN v /\ 4 <= Len(v)
    BY <1>1, SeqElement
  <2>2. v[5] \in Nat
    BY <2>1, SeqElement, Zenon
  <2>3. SubSeq(v, 1, 4) \in Seq(Nat)
    BY <2>1, SeqParts
  <2> DEFINE x == v[5] + 112
             high == <<x, 127, 127, 127, 127, 1>>
  <2>4. high \in Seq(Nat)
    <3>1. x \in Nat
      BY <2>2
    <3>2. ASSUME NEW n \in Nat PROVE <<n, 127, 127, 127, 127, 1>> \in Seq(Nat)
      OBVIOUS
    <3> HIDE DEF x
    <3> QED BY <3>1, <3>2, Zenon
  <2>5. SignExtended(v) = SubSeq(v, 1, 4) \o high
    BY <1>1, Zenon DEF SignExtended
  <2> HIDE DEF high
  <2> QED BY <2>3, <2>4, <2>5, SeqConcat, Zenon
<1>2. CASE ~ (Len(v) = 5 /\ v[5] >= 8)
  BY <1>2 DEF SignExtended
<1> QED BY <1>1, <1>2

\* of a length and a payload,
LEMMA LengthPrefixedType ==
    ASSUME NEW v \in Seq(Nat)
    PROVE  LengthPrefixed(v) \in Seq(Nat)
<1> DEFINE n == IF v = <<>> THEN <<>>
                ELSE IF Len(v) < 128 THEN <<Len(v)>>
                ELSE <<Len(v) % 128, Len(v) \div 128>>
<1>1. n \in Seq(Nat)
  <2>1. Len(v) \in Nat /\ Len(v) % 128 \in Nat /\ Len(v) \div 128 \in Nat
    OBVIOUS
  <2> QED BY <2>1
<1>2. LengthPrefixed(v) = EncodeVarint(n) \o v
  BY DEF LengthPrefixed
<1> HIDE DEF n
<1> QED BY <1>1, <1>2, EncodeVarintType, SeqConcat

\* of a field,
LEMMA ChunksType ==
    ASSUME NEW kind \in Kinds, NEW v \in ValueOf(kind)
    PROVE  Chunks(kind, v) \in Seq(Seq(Nat))
<1>0. /\ <<>> \in Seq(Seq(Nat))
      /\ \A b \in Seq(Nat) : <<b>> \in Seq(Seq(Nat))
  OBVIOUS
<1>1. CASE kind \in Lists \cup {"pointer"}
  <2>1. v \in Seq(Seq(Nat))
    BY <1>1 DEF ValueOf
  <2> DEFINE f == [i \in DOMAIN v |-> LengthPrefixed(v[i])]
  <2>2. Chunks(kind, v) = f
    BY <1>1 DEF Chunks, Lists
  <2>3. DOMAIN v = 1..Len(v) /\ Len(v) \in Nat /\ \A i \in DOMAIN v : v[i] \in Seq(Nat)
    BY <2>1, SeqElement
  <2>4. f \in [1..Len(v) -> Seq(Nat)]
    BY <2>3, LengthPrefixedType
  <2> HIDE DEF f
  <2>5. f \in Seq(Seq(Nat))
    BY <2>3, <2>4
  <2> QED BY <2>2, <2>5
<1>2. CASE kind \notin Lists \cup {"pointer"}
  <2>1. v \in Seq(Nat)
    BY <1>2 DEF ValueOf
  <2>2. /\ EncodeVarint(SignExtended(v)) \in Seq(Nat)
        /\ EncodeVarint(v) \in Seq(Nat)
        /\ LengthPrefixed(v) \in Seq(Nat)
    BY <2>1, EncodeVarintType, SignExtendedType, LengthPrefixedType
  <2>3. Chunks(kind, v) \in {<<>>, <<EncodeVarint(SignExtended(v))>>, <<EncodeVarint(v)>>,
                             <<LengthPrefixed(v)>>}
    BY <1>2 DEF Chunks, Kinds, Numbers, Lists
  <2> QED BY <1>0, <2>2, <2>3
<1> QED BY <1>1, <1>2

\* A message of a type: every field holds what its kind holds.
IsMessage(t, msg) ==
    /\ DOMAIN msg = DOMAIN Decoder(t)
    /\ \A field \in DOMAIN Decoder(t) : msg[field] \in ValueOf(Decoder(t)[field][2])

\* of all its fields, in the order of the table,
LEMMA MarshalPartsType ==
    ASSUME NEW t \in Types, NEW msg, IsMessage(t, msg)
    PROVE  /\ MarshalParts(t, msg) \in Seq(Seq(Nat))
           /\ Len(MarshalParts(t, msg)) = Len(Encoder(t))
<1> DEFINE enc == Encoder(t)
           tag(i) == enc[i][1]
           chunks(i) == Chunks(enc[i][3], msg[enc[i][2]])
           tagged(i) == [k \in DOMAIN chunks(i) |-> <<tag(i)>> \o chunks(i)[k]]
           parts == [i \in DOMAIN enc |-> FlattenSeq(tagged(i))]
<1>1. MarshalParts(t, msg) = parts
  BY Zenon DEF MarshalParts
<1>2. /\ enc \in Seq(Nat \X (DOMAIN Decoder(t)) \X Kinds)
      /\ \A i \in DOMAIN enc : enc[i][3] = Decoder(t)[enc[i][2]][2]
  BY TablesAssumption, Zenon
<1> HIDE DEF enc
<1>3. DOMAIN enc = 1..Len(enc) /\ Len(enc) \in Nat
      /\ \A i \in DOMAIN enc : enc[i] \in Nat \X (DOMAIN Decoder(t)) \X Kinds
  BY <1>2, SeqElement
<1>4. ASSUME NEW i \in DOMAIN enc
      PROVE  FlattenSeq(tagged(i)) \in Seq(Nat)
  <2>1. tag(i) \in Nat /\ enc[i][2] \in DOMAIN Decoder(t) /\ enc[i][3] \in Kinds
    BY <1>3
  <2>2. msg[enc[i][2]] \in ValueOf(enc[i][3])
    BY <1>2, <2>1, Zenon DEF IsMessage
  <2>3. chunks(i) \in Seq(Seq(Nat))
    BY <2>1, <2>2, ChunksType, Zenon
  <2> HIDE DEF chunks, tag
  <2>4. /\ DOMAIN chunks(i) = 1..Len(chunks(i)) /\ Len(chunks(i)) \in Nat
        /\ \A k \in DOMAIN chunks(i) : chunks(i)[k] \in Seq(Nat)
    BY <2>3, SeqElement, Zenon
  <2>5. <<tag(i)>> \in Seq(Nat)
    BY <2>1
  <2>6. \A k \in DOMAIN chunks(i) : <<tag(i)>> \o chunks(i)[k] \in Seq(Nat)
    BY <2>4, <2>5, SeqConcat, Zenon
  <2>7. tagged(i) \in [1..Len(chunks(i)) -> Seq(Nat)]
    BY <2>4, <2>6, Zenon
  <2> HIDE DEF tagged
  <2>8. tagged(i) \in Seq(Seq(Nat))
    BY <2>4, <2>7
  <2> QED BY <2>8, FlattenType, Zenon
<1> HIDE DEF tagged
<1>5. parts \in [1..Len(enc) -> Seq(Nat)]
  BY <1>3, <1>4, Zenon
<1> HIDE DEF parts
<1>6. parts \in Seq(Seq(Nat)) /\ Len(parts) = Len(enc)
  BY <1>3, <1>5
<1> QED BY <1>1, <1>6, Zenon DEF enc

\* and of a message.
LEMMA MarshalType ==
    ASSUME NEW t \in Types, NEW msg, IsMessage(t, msg)
    PROVE  MarshalToSizedBuffer(t, msg) \in Seq(Nat)
BY MarshalPartsType, FlattenType, Zenon DEF MarshalToSizedBuffer

-----------------------------------------------------------------------------
(* The loops of Unmarshal and skip. *)

\* The buffer holds bytes and the message values of its fields' kinds; the turns
\* are fewer than the bytes that were taken and the next one.
TurnsOK ==
    /\ type \in Types
    /\ IsBuffer
    /\ IsMessage(type, m)
    /\ TypeOK
    /\ turns \in Nat
    /\ turns < iNdEx

\* The numbers that TurnsOK is about.
LEMMA TurnsNumbers ==
    ASSUME TurnsOK
    PROVE  /\ iNdEx \in Nat /\ iNdEx >= 1
           /\ Len(dAtA) \in Nat
           /\ turns \in Nat /\ turns < iNdEx
<1>1. Len(dAtA) \in Nat
  BY DEF TurnsOK, IsBuffer
<1>2. iNdEx \in 1..(Len(dAtA) + 1) /\ turns \in Nat /\ turns < iNdEx
  BY DEF TurnsOK, TypeOK
<1> QED BY <1>1, <1>2

\* A turn that ends after where it begins, in the buffer, keeps all but the message.
LEMMA TurnTaken ==
    ASSUME TurnsOK, NEW next \in Nat, iNdEx < next, next <= Len(dAtA) + 1,
           iNdEx' = next, turns' = turns + 1, IsMessage(type, m'),
           UNCHANGED <<type, dAtA, status>>
    PROVE  TurnsOK'
<1>1. /\ iNdEx \in Nat /\ iNdEx >= 1 /\ Len(dAtA) \in Nat
      /\ turns \in Nat /\ turns < iNdEx
  BY TurnsNumbers
<1>2. turns' \in Nat /\ turns' < iNdEx' /\ iNdEx' \in 1..(Len(dAtA) + 1)
  BY <1>1
<1>3. IsBuffer' /\ type' \in Types
  BY DEF TurnsOK, IsBuffer
<1>4. IsMessage(type, m)'
  BY DEF IsMessage, Decoder
<1>5. TypeOK'
  BY <1>2, <1>4 DEF TurnsOK, TypeOK, IsMessage
<1> QED BY <1>2, <1>3, <1>4, <1>5 DEF TurnsOK

\* A message with a new value of a field.
LEMMA FieldSet ==
    ASSUME NEW t, NEW msg, IsMessage(t, msg), NEW field \in DOMAIN Decoder(t),
           NEW v \in ValueOf(Decoder(t)[field][2])
    PROVE  IsMessage(t, [msg EXCEPT ![field] = v])
BY DEF IsMessage

\* A number that a field takes.
LEMMA TakenNumberType ==
    ASSUME IsBuffer, NEW i \in Nat, i >= 1, CanReadVarint(i), NEW kind \in Numbers
    PROVE  TakenNumber(kind, i) \in ValueOf(kind)
<1>1. ReadVarint(i, 64) \in Seq(Nat) /\ ReadVarint(i, 32) \in Seq(Nat)
  BY ReadVarintType
<1>2. <<>> \in Seq(Nat) /\ <<1>> \in Seq(Nat)
  OBVIOUS
<1>3. TakenNumber(kind, i) \in {ReadVarint(i, 64), ReadVarint(i, 32), <<>>, <<1>>}
  BY DEF TakenNumber, Numbers
<1>4. ValueOf(kind) = Seq(Nat)
  BY DEF ValueOf, Numbers, Lists
<1> QED BY <1>1, <1>2, <1>3, <1>4, Zenon

\* A payload that a field takes.
LEMMA TakenType ==
    ASSUME NEW kind \in Kinds, NEW v \in ValueOf(kind), NEW bytes \in Seq(Nat)
    PROVE  Taken(kind, v, bytes) \in ValueOf(kind)
<1>1. CASE kind = "message"
  <2>1. v \in Seq(Nat) /\ ValueOf(kind) = Seq(Nat)
    BY <1>1 DEF ValueOf, Lists
  <2>2. Taken(kind, v, bytes) = v \o bytes
    BY <1>1 DEF Taken, Lists
  <2> QED BY <2>1, <2>2, SeqConcat, Zenon
<1>2. CASE kind = "pointer"
  <2>1. v \in Seq(Seq(Nat)) /\ ValueOf(kind) = Seq(Seq(Nat))
    BY <1>2 DEF ValueOf
  <2>2. Taken(kind, v, bytes) = IF v = <<>> THEN <<bytes>> ELSE <<v[1] \o bytes>>
    BY <1>2 DEF Taken, Lists
  <2>3. \A b \in Seq(Nat) : <<b>> \in Seq(Seq(Nat))
    OBVIOUS
  <2>4. v # <<>> => v[1] \in Seq(Nat)
    <3> HAVE v # <<>>
    <3>1. 1 \in DOMAIN v
      BY <2>1
    <3> QED BY <2>1, <3>1, SeqElement, Zenon
  <2>5. v # <<>> => v[1] \o bytes \in Seq(Nat)
    BY <2>4, SeqConcat, Zenon
  <2> QED BY <2>1, <2>2, <2>3, <2>5, Zenon
<1>3. CASE kind \in Lists
  <2>1. v \in Seq(Seq(Nat)) /\ ValueOf(kind) = Seq(Seq(Nat))
    BY <1>3 DEF ValueOf
  <2>2. Taken(kind, v, bytes) = Append(v, bytes)
    BY <1>3 DEF Taken, Lists
  <2>3. ASSUME NEW S, NEW w \in Seq(S), NEW b \in S PROVE Append(w, b) \in Seq(S)
    OBVIOUS
  <2> QED BY <2>1, <2>2, <2>3, Zenon
<1>4. CASE kind \notin Lists \cup {"message", "pointer"}
  <2>1. Taken(kind, v, bytes) = bytes
    BY <1>4 DEF Taken
  <2>2. ValueOf(kind) = Seq(Nat)
    BY <1>4 DEF ValueOf
  <2> QED BY <2>1, <2>2
<1> QED BY <1>1, <1>2, <1>3, <1>4

\* A turn for a number.
LEMMA ReadNumberStep ==
    ASSUME TurnsOK, ReadNumber
    PROVE  TurnsOK'
<1>1. iNdEx \in Nat /\ iNdEx >= 1 /\ Len(dAtA) \in Nat
  BY TurnsNumbers
<1>2. IsBuffer /\ IsMessage(type, m)
  BY DEF TurnsOK
<1>3. PICK field \in Fields :
         /\ CanReadNumber(field)
         /\ m' = [m EXCEPT ![field] = TakenNumber(Kind(field), Value)]
  BY DEF ReadNumber
<1>4. CanReadVarint(iNdEx) /\ CanReadVarint(Value) /\ Kind(field) \in Numbers
  BY <1>3 DEF ReadNumber, CanReadTag, CanReadNumber
<1>5. Value \in Nat /\ iNdEx < Value /\ Value >= 1
  BY <1>1, <1>2, <1>4, VarintEndIs DEF Value
<1>6. VarintEnd(Value) \in Nat /\ Value <= VarintEnd(Value) /\ VarintEnd(Value) <= Len(dAtA)
  BY <1>2, <1>4, <1>5, VarintEndIs
<1>7. IsMessage(type, m')
  <2>1. field \in DOMAIN Decoder(type)
    BY DEF Fields
  <2>2. TakenNumber(Kind(field), Value) \in ValueOf(Kind(field))
    BY <1>2, <1>4, <1>5, TakenNumberType
  <2> QED BY <1>2, <1>3, <2>1, <2>2, FieldSet DEF Kind
<1> DEFINE next == VarintEnd(Value) + 1
<1>8. next \in Nat /\ iNdEx < next /\ next <= Len(dAtA) + 1
  BY <1>1, <1>5, <1>6
<1>9. iNdEx' = next /\ turns' = turns + 1 /\ UNCHANGED <<type, dAtA, status>>
  BY DEF ReadNumber
<1> HIDE DEF next
<1> QED BY <1>7, <1>8, <1>9, TurnTaken

\* A turn for a payload.
LEMMA ReadPayloadStep ==
    ASSUME TurnsOK, ReadPayload
    PROVE  TurnsOK'
<1>1. iNdEx \in Nat /\ iNdEx >= 1 /\ Len(dAtA) \in Nat
  BY TurnsNumbers
<1>2. IsBuffer /\ IsMessage(type, m) /\ type \in Types
  BY DEF TurnsOK
<1>3. PICK field \in Fields :
         /\ CanReadPayload(field)
         /\ m' = [m EXCEPT ![field] = Taken(Kind(field), m[field], Bytes(Value))]
  BY DEF ReadPayload
<1>4. CanReadVarint(iNdEx) /\ CanReadBytes(Value)
  BY <1>3 DEF ReadPayload, CanReadTag, CanReadPayload
<1>5. Value \in Nat /\ iNdEx < Value /\ Value >= 1
  BY <1>1, <1>2, <1>4, VarintEndIs DEF Value
<1>6. CanReadVarint(Value) /\ PostIndex(Value) <= Len(dAtA) + 1
  BY <1>4 DEF CanReadBytes
<1>7. IsMessage(type, m')
  <2>1. field \in DOMAIN Decoder(type)
    BY DEF Fields
  <2>2. Kind(field) \in Kinds /\ m[field] \in ValueOf(Kind(field))
    BY <1>2, <2>1, TablesAssumption, Zenon DEF Kind, IsMessage
  <2>3. Bytes(Value) \in Seq(Nat)
    BY <1>2, <1>4, <1>5, BytesType
  <2>4. Taken(Kind(field), m[field], Bytes(Value)) \in ValueOf(Kind(field))
    BY <2>2, <2>3, TakenType
  <2> QED BY <1>2, <1>3, <2>1, <2>4, FieldSet DEF Kind
<1> DEFINE next == PostIndex(Value)
<1>8. next \in Nat /\ Value < next
  BY <1>2, <1>5, <1>6, PostIndexIs
<1>9. iNdEx' = next /\ turns' = turns + 1 /\ UNCHANGED <<type, dAtA, status>>
  BY DEF ReadPayload
<1>10. next <= Len(dAtA) + 1
  BY <1>6
<1> HIDE DEF next
<1>11. iNdEx < next
  BY <1>1, <1>5, <1>8
<1> QED BY <1>7, <1>8, <1>9, <1>10, <1>11, TurnTaken

\* A turn of skip.
LEMMA SkipUnknownStep ==
    ASSUME TurnsOK, SkipUnknown
    PROVE  TurnsOK'
<1>1. iNdEx \in Nat /\ iNdEx >= 1 /\ Len(dAtA) \in Nat
  BY TurnsNumbers
<1>2. IsBuffer /\ IsMessage(type, m)
  BY DEF TurnsOK
<1> DEFINE next == SkipElement(iNdEx)
<1>3. next \in 1..(Len(dAtA) + 1)
  BY DEF SkipUnknown, CanSkip
<1>4. iNdEx' = next /\ turns' = turns + 1 /\ m' = m /\ UNCHANGED <<type, dAtA, status>>
  BY DEF SkipUnknown
<1>5. next # 0
  BY <1>1, <1>3
<1>6. next \in Nat /\ iNdEx < next
  BY <1>1, <1>2, <1>5, SkipAdvances
<1> HIDE DEF next
<1>7. next <= Len(dAtA) + 1
  BY <1>1, <1>3
<1>8. IsMessage(type, m')
  BY <1>2, <1>4
<1> QED BY <1>4, <1>6, <1>7, <1>8, TurnTaken

-----------------------------------------------------------------------------
(* The inputs. *)

\* Marshal of every message of Messages is a sequence of bytes: a fresh message,
LEMMA ZeroIsMessage ==
    ASSUME NEW t
    PROVE  IsMessage(t, Zero(t))
<1>1. \A kind : <<>> \in ValueOf(kind)
  BY DEF ValueOf
<1> QED BY <1>1 DEF IsMessage, Zero

\* one with every field set,
LEMMA WholeIsMessage ==
    ASSUME NEW t \in Types, NEW k \in 1..2
    PROVE  IsMessage(t, Whole(t, k))
<1>1. \A field \in DOMAIN Decoder(t) : Decoder(t)[field][2] \in Kinds
  BY TablesAssumption
<1>2. \A field \in DOMAIN Decoder(t) :
         Samples[Decoder(t)[field][2]][k] \in ValueOf(Decoder(t)[field][2])
  BY <1>1, InputAssumption, Zenon
<1> QED BY <1>2, Zenon DEF IsMessage, Whole

\* and one with one field set.
LEMMA MessagesAreMessages ==
    ASSUME NEW t \in Types, NEW msg \in Messages(t)
    PROVE  IsMessage(t, msg)
<1>1. CASE msg = Zero(t)
  BY <1>1, ZeroIsMessage
<1>2. CASE msg \in {Whole(t, 1), Whole(t, 2)}
  <2>1. 1 \in 1..2 /\ 2 \in 1..2
    OBVIOUS
  <2> QED BY <1>2, <2>1, WholeIsMessage, Zenon
<1>3. ASSUME NEW field \in DOMAIN Decoder(t), NEW k \in 1..2,
             msg = [Zero(t) EXCEPT ![field] = Whole(t, k)[field]]
      PROVE  IsMessage(t, msg)
  <2>1. Whole(t, k)[field] \in ValueOf(Decoder(t)[field][2])
    BY WholeIsMessage, Zenon DEF IsMessage
  <2> QED BY <1>3, <2>1, ZeroIsMessage, FieldSet, Zenon
<1>4. \/ msg \in {Zero(t), Whole(t, 1), Whole(t, 2)}
      \/ \E field \in DOMAIN Decoder(t), k \in 1..2 :
            msg = [Zero(t) EXCEPT ![field] = Whole(t, k)[field]]
  BY DEF Messages
<1> QED BY <1>1, <1>2, <1>3, <1>4, Zenon

\* Every buffer of the inputs.
LEMMA InitIsBuffer ==
    ASSUME Init
    PROVE  IsBuffer
<1>0. type \in Types
  BY DEF Init
<1>1. \A msg \in Messages(type) : MarshalToSizedBuffer(type, msg) \in Seq(Nat)
  BY <1>0, MessagesAreMessages, MarshalType, Zenon
<1>2. \A k \in 1..2 : MarshalToSizedBuffer(type, Whole(type, k)) \in Seq(Nat)
  BY <1>0, WholeIsMessage, MarshalType, Zenon
<1>3. CASE \E msg \in Messages(type) : dAtA = MarshalToSizedBuffer(type, msg)
  BY <1>1, <1>3 DEF IsBuffer
<1>4. CASE \E msg \in Messages(type), k \in 1..2 :
              dAtA = MarshalToSizedBuffer(type, Whole(type, k))
                     \o MarshalToSizedBuffer(type, msg)
  BY <1>1, <1>2, <1>4, SeqConcat, Zenon DEF IsBuffer
<1>5. CASE \E k \in 0..Len(Encoder(type)), unknown \in UnknownFields :
              dAtA = Extended(type, Whole(type, 1), k, unknown)
  <2> DEFINE parts == MarshalParts(type, Whole(type, 1))
  <2>1. PICK k \in 0..Len(Encoder(type)), unknown \in UnknownFields :
           dAtA = FlattenSeq(SubSeq(parts, 1, k)) \o unknown
                  \o FlattenSeq(SubSeq(parts, k + 1, Len(parts)))
    BY <1>5, Zenon DEF Extended
  <2>2. parts \in Seq(Seq(Nat)) /\ Len(parts) = Len(Encoder(type))
    <3>1. 1 \in 1..2
      OBVIOUS
    <3> QED BY <1>0, <3>1, WholeIsMessage, MarshalPartsType, Zenon
  <2> HIDE DEF parts
  <2>3. unknown \in Seq(Nat)
    BY InputAssumption
  <2>4. /\ SubSeq(parts, 1, k) \in Seq(Seq(Nat))
        /\ SubSeq(parts, k + 1, Len(parts)) \in Seq(Seq(Nat))
    <3>1. Len(parts) \in Nat /\ k \in Nat /\ k <= Len(parts)
      BY <2>2
    <3> QED BY <2>2, <3>1, SeqParts
  <2>5. /\ FlattenSeq(SubSeq(parts, 1, k)) \in Seq(Nat)
        /\ FlattenSeq(SubSeq(parts, k + 1, Len(parts))) \in Seq(Nat)
    BY <2>4, FlattenType, Zenon
  <2> QED BY <2>1, <2>3, <2>5, SeqConcat, Zenon DEF IsBuffer
<1>6. ASSUME NEW w \in 1..2, NEW k \in 1..(Len(MarshalToSizedBuffer(type, Whole(type, w))) - 1),
             dAtA = SubSeq(MarshalToSizedBuffer(type, Whole(type, w)), 1, k)
      PROVE  IsBuffer
  <2> DEFINE bytes == MarshalToSizedBuffer(type, Whole(type, w))
  <2>1. bytes \in Seq(Nat) /\ dAtA = SubSeq(bytes, 1, k) /\ k \in 1..(Len(bytes) - 1)
    BY <1>2, <1>6
  <2> HIDE DEF bytes
  <2>2. k \in Nat /\ k <= Len(bytes)
    BY <2>1
  <2> QED BY <2>1, <2>2, SeqParts DEF IsBuffer
<1>7. ASSUME NEW w \in 1..2, NEW k \in 1..Len(MarshalToSizedBuffer(type, Whole(type, w))),
             NEW byte \in Damage,
             dAtA = [MarshalToSizedBuffer(type, Whole(type, w)) EXCEPT ![k] = byte]
      PROVE  IsBuffer
  <2> DEFINE bytes == MarshalToSizedBuffer(type, Whole(type, w))
  <2>1. bytes \in Seq(Nat) /\ dAtA = [bytes EXCEPT ![k] = byte]
    BY <1>2, <1>7
  <2> HIDE DEF bytes
  <2>2. byte \in Nat
    BY InputAssumption
  <2>3. [bytes EXCEPT ![k] = byte] \in Seq(Nat)
    <3>1. DOMAIN bytes = 1..Len(bytes) /\ Len(bytes) \in Nat /\ bytes \in [1..Len(bytes) -> Nat]
      BY <2>1
    <3> DEFINE damaged == [bytes EXCEPT ![k] = byte]
    <3>2. damaged \in [1..Len(bytes) -> Nat]
      BY <2>2, <3>1
    <3> HIDE DEF damaged
    <3>3. damaged \in Seq(Nat)
      BY <3>1, <3>2
    <3> QED BY <3>3 DEF damaged
  <2> QED BY <2>1, <2>3 DEF IsBuffer
<1>8. 1 \in 1..2 /\ 2 \in 1..2
  OBVIOUS
<1>9. \/ \E msg \in Messages(type) : dAtA = MarshalToSizedBuffer(type, msg)
      \/ \E msg \in Messages(type), k \in 1..2 :
            dAtA = MarshalToSizedBuffer(type, Whole(type, k))
                   \o MarshalToSizedBuffer(type, msg)
      \/ \E k \in 0..Len(Encoder(type)), unknown \in UnknownFields :
            dAtA = Extended(type, Whole(type, 1), k, unknown)
      \/ \E w \in 1..2 :
            \/ \E k \in 1..(Len(MarshalToSizedBuffer(type, Whole(type, w))) - 1) :
                  dAtA = SubSeq(MarshalToSizedBuffer(type, Whole(type, w)), 1, k)
            \/ \E k \in 1..Len(MarshalToSizedBuffer(type, Whole(type, w))), byte \in Damage :
                  dAtA = [MarshalToSizedBuffer(type, Whole(type, w)) EXCEPT ![k] = byte]
  BY <1>8, ZenonT(60) DEF Init, Given
<1> QED BY <1>3, <1>4, <1>5, <1>6, <1>7, <1>9, Zenon

-----------------------------------------------------------------------------
(* Unmarshal returns. *)

\* Unmarshal on a fresh message and bytes of any origin.
AnyBytes ==
    /\ type \in Types
    /\ IsBuffer
    /\ m = Zero(type)
    /\ iNdEx = 1
    /\ depth = 0
    /\ status = "reading"
    /\ turns = 0

\* The state it starts in,
LEMMA AnyBytesTurns ==
    ASSUME AnyBytes
    PROVE  TurnsOK
<1>1. IsMessage(type, m)
  BY ZeroIsMessage DEF AnyBytes
<1>2. Len(dAtA) \in Nat
  BY DEF AnyBytes, IsBuffer
<1>3. iNdEx \in 1..(Len(dAtA) + 1) /\ turns \in Nat /\ turns < iNdEx
  BY <1>2 DEF AnyBytes
<1> QED BY <1>1, <1>3 DEF TurnsOK, AnyBytes, TypeOK, IsMessage

\* also when a message is read from the store again,
LEMMA StoreStep ==
    ASSUME TurnsOK, Store
    PROVE  TurnsOK'
<1>1. MarshalToSizedBuffer(type, m) \in Seq(Nat)
  BY MarshalType DEF TurnsOK
<1>2. IsBuffer'
  BY <1>1 DEF Store, IsBuffer
<1>3. type' = type /\ m' = Zero(type) /\ iNdEx' = 1 /\ turns' = 0 /\ status' = "reading"
  BY DEF Store
<1>4. Len(dAtA') \in Nat
  BY <1>2 DEF IsBuffer
<1>5. iNdEx' \in 1..(Len(dAtA') + 1) /\ turns' \in Nat /\ turns' < iNdEx'
  BY <1>3, <1>4
<1>6. IsMessage(type, m)'
  BY <1>3, ZeroIsMessage DEF IsMessage, Decoder
<1>7. TypeOK'
  BY <1>3, <1>5, <1>6 DEF TypeOK, IsMessage
<1>8. type' \in Types
  BY <1>3 DEF TurnsOK
<1> QED BY <1>2, <1>5, <1>6, <1>7, <1>8 DEF TurnsOK

\* and every step from it.
LEMMA TurnsStep ==
    ASSUME TurnsOK, [Next]_vars
    PROVE  TurnsOK'
<1>1. ASSUME status' \in {"reading", "ok", "error"}, UNCHANGED <<type, dAtA, iNdEx, m, turns>>
      PROVE  TurnsOK'
  BY <1>1 DEF TurnsOK, IsBuffer, IsMessage, TypeOK, Decoder
<1>2. CASE ReturnError
  BY <1>1, <1>2 DEF ReturnError
<1>3. CASE Return
  BY <1>1, <1>3 DEF Return
<1>4. CASE Finished \/ UNCHANGED vars
  <2>1. status' = status /\ UNCHANGED <<type, dAtA, iNdEx, m, turns>>
    BY <1>4 DEF Finished, vars
  <2> QED BY <1>1, <2>1 DEF TurnsOK, TypeOK
<1> QED BY <1>2, <1>3, <1>4, ReadNumberStep, ReadPayloadStep, SkipUnknownStep, StoreStep DEF Next

\* Whatever bytes a node is given, every turn of the loops of Unmarshal and of skip
\* takes a byte and stays in the buffer, so they return after at most Len(dAtA)
\* turns, and the same holds when what was accepted is stored and read again.
THEOREM AnyBytesReturn == AnyBytes /\ [][Next]_vars => []EveryTurnAdvances
<1>1. TurnsOK => EveryTurnAdvances
  BY DEF TurnsOK, EveryTurnAdvances
<1> QED BY <1>1, AnyBytesTurns, TurnsStep, PTL

\* The buffers that are checked (marshalled, extended, cut and damaged messages of
\* every type) are bytes, so their decoding returns as well.
THEOREM EveryTurnAlwaysAdvances == Spec => []EveryTurnAdvances
<1>1. Init => AnyBytes
  BY InitIsBuffer DEF Init, AnyBytes
<1> QED BY <1>1, AnyBytesReturn, PTL DEF Spec
=============================================================================
