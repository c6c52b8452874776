---------------------------- MODULE PerpV2Proofs ----------------------------
(***************************************************************************)
(* The clearing house for any number of traders and pairs and any inputs.  *)
(* The pool of a market and the positions of its traders agree             *)
(* (BiasAccounted); no account is overdrawn (TypeOK); the prepaid bad debt *)
(* of a market is at least what the fund has advanced                      *)
(* (PrepaidCoversCredit); RemoveMargin leaves no long underwater           *)
(* (RemoveMarginKeepsLongsSolvent); the TWAP is the average of the prices  *)
(* of its window (TwapIsAverage); positions stay valid                     *)
(* (PositionsNearlyValid; PositionsValid, but for what a liquidation in    *)
(* part does to a long), and those that have just grown are healthy        *)
(* (TradeLeavesHealthy).                                                   *)
(*                                                                         *)
(* Every handler maps a store to a store, so the argument is about stores: *)
(* StoreOK is the inductive invariant, a handler's response moves the bias *)
(* of the pool by the size it exchanges (IsResponse), and paying money     *)
(* about changes neither pools nor positions (Neutral).  Funds is the part *)
(* of the invariant about money and types.                                 *)
(***************************************************************************)
EXTENDS PerpV2, ArithmeticProofs

-----------------------------------------------------------------------------
(* Pools. *)

Pool(amm) == amm \in AmmType /\ amm.peg > 0 /\ amm.sqrtDepth > 0

\* A trade moves the bias by the base assets exchanged.
LEMMA TradeBias ==
    ASSUME NEW amm, Pool(amm), NEW q \in Int, NEW b \in Int, NEW dir
    PROVE  /\ Pool(Trade(amm, q, b, dir))
           /\ Bias(Trade(amm, q, b, dir)) = Bias(amm) + Signed(b, dir)
<1> DEFINE long == [amm EXCEPT !.quote = @ + q, !.base = @ - b, !.totalLong = @ + b]
           short == [amm EXCEPT !.quote = @ - q, !.base = @ + b, !.totalShort = @ + b]
<1>1. amm.base \in Int /\ amm.quote \in Int /\ amm.totalLong \in Int /\ amm.totalShort \in Int
  BY DEF Pool, AmmType
<1>2. long \in AmmType /\ short \in AmmType
  <2>1. ASSUME NEW x \in Int, NEW y \in Int, NEW z \in Int
        PROVE  /\ [amm EXCEPT !.quote = x, !.base = y, !.totalLong = z] \in AmmType
               /\ [amm EXCEPT !.quote = x, !.base = y, !.totalShort = z] \in AmmType
    BY DEF Pool, AmmType
  <2>2. /\ amm.quote + q \in Int /\ amm.quote - q \in Int /\ amm.base + b \in Int
        /\ amm.base - b \in Int /\ amm.totalLong + b \in Int /\ amm.totalShort + b \in Int
    BY <1>1
  <2> QED BY <2>1, <2>2, Zenon
<1>3. /\ long.peg = amm.peg /\ long.sqrtDepth = amm.sqrtDepth
      /\ long.totalLong = amm.totalLong + b /\ long.totalShort = amm.totalShort
  BY DEF Pool, AmmType
<1>4. /\ short.peg = amm.peg /\ short.sqrtDepth = amm.sqrtDepth
      /\ short.totalShort = amm.totalShort + b /\ short.totalLong = amm.totalLong
  BY DEF Pool, AmmType
<1>5. Trade(amm, q, b, dir) = IF dir = Long THEN long ELSE short
  BY DEF Trade
<1> HIDE DEF long, short
<1>6. Pool(long) /\ Pool(short)
  BY <1>2, <1>3, <1>4 DEF Pool
<1>7. Bias(long) = Bias(amm) + b /\ Bias(short) = Bias(amm) - b
  BY <1>1, <1>3, <1>4 DEF Bias
<1>8. Bias(amm) \in Int
  BY <1>1 DEF Bias
<1> QED BY <1>5, <1>6, <1>7, <1>8 DEF Signed

\* The reserve units a trade of base assets is worth.
LEMMA QuoteReserveType ==
    ASSUME NEW amm, Pool(amm), NEW b \in Int, NEW dir,
           CanGetQuoteReserveAmt(amm, b, dir)
    PROVE  GetQuoteReserveAmt(amm, b, dir) \in Int
<1>1. CASE b <= 0
  BY <1>1 DEF GetQuoteReserveAmt
<1>2. CASE b > 0
  <2>1. BaseAfter(amm, b, dir) \in Int \ {0}
    BY <1>2 DEF CanGetQuoteReserveAmt, BaseAfter, Pool, AmmType
  <2>2. Invariant(amm) \in Int
    BY MulType DEF Invariant, Pool, AmmType
  <2>3. Quo(Invariant(amm), BaseAfter(amm, b, dir)) \in Int
    BY <2>1, <2>2, QuoType
  <2> QED BY <1>2, <2>3 DEF GetQuoteReserveAmt, Abs, Pool, AmmType
<1> QED BY <1>1, <1>2

\* The base assets a trade of quote reserve units is worth.
LEMMA BaseReserveType ==
    ASSUME NEW amm, Pool(amm), NEW q \in Int, NEW dir,
           CanGetBaseReserveAmt(amm, q, dir)
    PROVE  GetBaseReserveAmt(amm, q, dir) \in Int
<1>1. CASE q <= 0
  BY <1>1 DEF GetBaseReserveAmt
<1>2. CASE q > 0
  <2>1. QuoteAfter(amm, q, dir) \in Int \ {0}
    BY <1>2 DEF CanGetBaseReserveAmt, QuoteAfter, Pool, AmmType
  <2>2. Invariant(amm) \in Int
    BY MulType DEF Invariant, Pool, AmmType
  <2>3. Quo(Invariant(amm), QuoteAfter(amm, q, dir)) \in Int
    BY <2>1, <2>2, QuoType
  <2> QED BY <1>2, <2>3 DEF GetBaseReserveAmt, Abs, Pool, AmmType
<1> QED BY <1>1, <1>2

\* Keeper.SwapQuoteAsset moves the bias by the base assets it reports.
LEMMA SwapQuoteBias ==
    ASSUME NEW amm, Pool(amm), NEW dir, NEW quote \in Int, NEW limit,
           CanSwapQuoteAsset(amm, dir, quote, limit)
    PROVE  /\ Signed(SwappedBase(amm, dir, quote), dir) \in Int
           /\ Pool(SwappedAmm(amm, dir, quote))
           /\ Bias(SwappedAmm(amm, dir, quote))
                = Bias(amm) + Signed(SwappedBase(amm, dir, quote), dir)
<1>1. CASE quote > 0
  <2> DEFINE q == FromQuoteAssetToReserve(amm, quote)
  <2>1. q \in Int
    BY QuoType DEF FromQuoteAssetToReserve, Pool, AmmType
  <2>2. SwapQuoteDelta(amm, quote, dir) \in Int
    BY <1>1, <2>1, BaseReserveType DEF CanSwapQuoteAsset, CanSwapQuote, SwapQuoteDelta
  <2> QED BY <1>1, <2>1, <2>2, TradeBias DEF SwappedBase, SwappedAmm, SwapQuoteAmm, Signed
<1>2. CASE ~ (quote > 0)
  BY <1>2 DEF SwappedBase, SwappedAmm, Signed, Bias, Pool, AmmType
<1> QED BY <1>1, <1>2

\* So does SwapBaseAsset.
LEMMA SwapBaseBias ==
    ASSUME NEW amm, Pool(amm), NEW dir, NEW b \in Int, CanGetQuoteReserveAmt(amm, b, dir)
    PROVE  /\ Pool(SwapBaseAmm(amm, b, dir))
           /\ Bias(SwapBaseAmm(amm, b, dir)) = Bias(amm) + Signed(b, dir)
           /\ SwapBaseDelta(amm, b, dir) \in Int
<1>1. GetQuoteReserveAmt(amm, b, dir) \in Int
  BY QuoteReserveType
<1>2. SwapBaseDelta(amm, b, dir) \in Int
  BY <1>1, MulType DEF SwapBaseDelta, FromQuoteReserveToAsset, Pool, AmmType
<1> QED BY <1>1, <1>2, TradeBias DEF SwapBaseAmm

-----------------------------------------------------------------------------
(* Responses: what a change to a position does to the pool. *)

\* A position, whatever its margin and its funding: sizes are all that matters.
IsPosition(pos) ==
    pos \in [stored : {pos.stored}, size : Int, margin : {pos.margin},
             openNotional : {pos.openNotional}, cpf : {pos.cpf}]

IsResponse(r, amm, pos) ==
    /\ Pool(r.amm)
    /\ IsPosition(r.pos)
    /\ r.size \in Int
    /\ r.notional \in Int
    /\ r.pos.size = pos.size + r.size
    /\ Bias(r.amm) = Bias(amm) + r.size

\* The zero position is a position.
LEMMA ZeroIsPosition == IsPosition(ZeroPosition) /\ ZeroPosition.size = 0
BY DEF ZeroPosition, IsPosition

\* A record with the fields of a position and a size is one.
LEMMA MakePosition ==
    ASSUME NEW stored, NEW size \in Int, NEW margin, NEW openNotional, NEW cpf
    PROVE  IsPosition([stored |-> stored, size |-> size, margin |-> margin,
                       openNotional |-> openNotional, cpf |-> cpf])
BY DEF IsPosition

\* increasePosition
LEMMA IncreaseResponse ==
    ASSUME NEW m, NEW amm, Pool(amm), NEW pos, IsPosition(pos), NEW dir,
           NEW notional \in Int, NEW limit, NEW lev,
           IncreasePosition(m, amm, pos, dir, notional, limit, lev).ok
    PROVE  IsResponse(IncreasePosition(m, amm, pos, dir, notional, limit, lev), amm, pos)
<1> DEFINE r == IncreasePosition(m, amm, pos, dir, notional, limit, lev)
           size == Signed(SwappedBase(amm, dir, notional), dir)
<1>1. CanSwapQuoteAsset(amm, dir, notional, limit)
  BY DEF IncreasePosition, Failed
<1>2. /\ size \in Int
      /\ Pool(SwappedAmm(amm, dir, notional))
      /\ Bias(SwappedAmm(amm, dir, notional)) = Bias(amm) + size
  BY <1>1, SwapQuoteBias
<1>3. /\ r.amm = SwappedAmm(amm, dir, notional)
      /\ r.size = size
      /\ r.notional = notional
      /\ r.pos.size = pos.size + size
  BY DEF IncreasePosition, Failed
<1>4. pos.size \in Int
  BY DEF IsPosition
<1>5. IsPosition(r.pos)
  <2>1. r.pos = [stored |-> TRUE, size |-> pos.size + size, margin |-> r.pos.margin,
                 openNotional |-> r.pos.openNotional, cpf |-> m.cpf]
    BY DEF IncreasePosition, Failed
  <2>2. pos.size + size \in Int
    BY <1>2, <1>4
  <2> HIDE DEF r, size
  <2> QED BY <2>1, <2>2, MakePosition
<1> HIDE DEF r, size
<1> QED BY <1>2, <1>3, <1>5 DEF IsResponse, r

\* decreasePosition
LEMMA DecreaseResponse ==
    ASSUME NEW m, NEW amm, Pool(amm), NEW pos, IsPosition(pos),
           NEW notional \in Int, NEW limit,
           DecreasePosition(m, amm, pos, notional, limit).ok
    PROVE  IsResponse(DecreasePosition(m, amm, pos, notional, limit), amm, pos)
<1> DEFINE r == DecreasePosition(m, amm, pos, notional, limit)
           dir == ExitDir(pos)
           size == Signed(SwappedBase(amm, dir, notional), dir)
<1>1. CanSwapQuoteAsset(amm, dir, notional, limit)
  BY DEF DecreasePosition, CanDecrease, Failed
<1>2. /\ size \in Int
      /\ Pool(SwappedAmm(amm, dir, notional))
      /\ Bias(SwappedAmm(amm, dir, notional)) = Bias(amm) + size
  BY <1>1, SwapQuoteBias
<1>3. /\ r.amm = SwappedAmm(amm, dir, notional)
      /\ r.size = size
      /\ r.notional = notional
      /\ r.pos.size = pos.size + size
  BY DEF DecreasePosition, CanDecrease, Failed
<1>4. pos.size \in Int
  BY DEF IsPosition
<1>5. IsPosition(r.pos)
  <2>1. r.pos = [stored |-> TRUE, size |-> pos.size + size, margin |-> r.pos.margin,
                 openNotional |-> r.pos.openNotional, cpf |-> m.cpf]
    BY DEF DecreasePosition, CanDecrease, Failed
  <2>2. pos.size + size \in Int
    BY <1>2, <1>4
  <2> HIDE DEF r, size
  <2> QED BY <2>1, <2>2, MakePosition
<1> HIDE DEF r, size
<1> QED BY <1>2, <1>3, <1>5 DEF IsResponse, r

\* closePositionEntirely
LEMMA CloseResponse ==
    ASSUME NEW m, NEW amm, Pool(amm), NEW pos, IsPosition(pos),
           ClosePositionEntirely(m, amm, pos).ok
    PROVE  /\ IsResponse(ClosePositionEntirely(m, amm, pos), amm, pos)
           /\ ClosePositionEntirely(m, amm, pos).size = - pos.size
           /\ ClosePositionEntirely(m, amm, pos).pos = ZeroPosition
<1> DEFINE r == ClosePositionEntirely(m, amm, pos)
           dir == ExitDir(pos)
<1>1. pos.size \in Int /\ Abs(pos.size) \in Int
  BY DEF IsPosition, Abs
<1>2. CanGetQuoteReserveAmt(amm, Abs(pos.size), dir)
  BY DEF ClosePositionEntirely, Failed, CanNotionalSpot
<1>3. /\ Pool(SwapBaseAmm(amm, Abs(pos.size), dir))
      /\ Bias(SwapBaseAmm(amm, Abs(pos.size), dir)) = Bias(amm) + Signed(Abs(pos.size), dir)
      /\ SwapBaseDelta(amm, Abs(pos.size), dir) \in Int
  BY <1>1, <1>2, SwapBaseBias
<1>4. Signed(Abs(pos.size), dir) = - pos.size
  BY <1>1 DEF Signed, Abs, ExitDir, Long, Short
<1>5. /\ r.amm = SwapBaseAmm(amm, Abs(pos.size), dir)
      /\ r.size = - pos.size
      /\ r.notional = SwapBaseDelta(amm, Abs(pos.size), dir)
      /\ r.pos = ZeroPosition
  BY DEF ClosePositionEntirely, Failed
<1>6. - pos.size \in Int /\ 0 = pos.size + (- pos.size)
  BY <1>1
<1> HIDE DEF r, dir
<1> QED BY <1>3, <1>4, <1>5, <1>6, ZeroIsPosition DEF IsResponse, r

\* closeAndOpenReversePosition
LEMMA CloseAndOpenResponse ==
    ASSUME NEW m, NEW amm, Pool(amm), NEW pos, IsPosition(pos),
           NEW quote \in Int, NEW lev \in Int, NEW limit,
           CloseAndOpenReversePosition(m, amm, pos, quote, lev, limit).ok
    PROVE  IsResponse(CloseAndOpenReversePosition(m, amm, pos, quote, lev, limit), amm, pos)
<1> DEFINE r == CloseAndOpenReversePosition(m, amm, pos, quote, lev, limit)
           close == ClosePositionEntirely(m, amm, pos)
           remaining == lev * quote - close.notional
           newLimit == IF limit > 0 THEN limit - Abs(close.size) ELSE limit
           open == IncreasePosition(m, close.amm, ZeroPosition, ExitDir(pos),
                                    remaining, newLimit, lev)
<1>1. close.ok /\ (r = close \/ open.ok)
  BY DEF CloseAndOpenReversePosition, Failed
<1>2. IsResponse(close, amm, pos) /\ close.size = - pos.size /\ close.pos = ZeroPosition
  BY <1>1, CloseResponse
<1>3. CASE r = close
  BY <1>2, <1>3
<1>4. CASE r # close
  <2>1. open.ok
    BY <1>1, <1>4
  <2>2. remaining \in Int /\ Pool(close.amm)
    BY <1>2 DEF IsResponse
  <2>3. IsResponse(open, close.amm, ZeroPosition)
    <3> HIDE DEF close, remaining, newLimit
    <3> QED BY <2>1, <2>2, ZeroIsPosition, IncreaseResponse
  <2>4. open \in [ok : {open.ok}, amm : {open.amm}, pos : {open.pos},
                  deleted : {open.deleted}, notional : {open.notional},
                  size : {open.size}, badDebt : {open.badDebt}, toVault : {open.toVault}]
    <3> HIDE DEF close, remaining, newLimit
    <3> QED BY <2>1 DEF IncreasePosition, Failed
  <2>5. r = [open EXCEPT !.deleted = TRUE,
                         !.notional = @ + close.notional,
                         !.size = @ + close.size,
                         !.badDebt = @ + close.badDebt,
                         !.toVault = @ + close.toVault]
    BY <1>4, Zenon DEF CloseAndOpenReversePosition, Failed
  <2>6. /\ r.amm = open.amm
        /\ r.pos = open.pos
        /\ r.size = open.size + close.size
        /\ r.notional = open.notional + close.notional
    <3> HIDE DEF r, open, close
    <3> QED BY <2>4, <2>5
  <2>7. pos.size \in Int /\ Bias(amm) \in Int
    BY DEF IsPosition, Bias, Pool, AmmType
  <2> HIDE DEF r, open, close, remaining
  <2>8. /\ r.size \in Int
        /\ r.notional \in Int
        /\ r.pos.size = pos.size + r.size
        /\ Bias(r.amm) = Bias(amm) + r.size
    BY <1>2, <2>3, <2>6, <2>7, ZeroIsPosition DEF IsResponse
  <2>9. Pool(r.amm) /\ IsPosition(r.pos)
    BY <2>3, <2>6 DEF IsResponse
  <2> QED BY <2>8, <2>9 DEF IsResponse, r
<1> QED BY <1>3, <1>4

\* openReversePosition
LEMMA ReverseResponse ==
    ASSUME NEW m, NEW amm, Pool(amm), NEW pos, IsPosition(pos),
           NEW quote \in Int, NEW lev \in Int, NEW limit,
           OpenReversePosition(m, amm, pos, quote, lev, limit).ok
    PROVE  IsResponse(OpenReversePosition(m, amm, pos, quote, lev, limit), amm, pos)
<1>1. lev * quote \in Int
  OBVIOUS
<1>2. \/ OpenReversePosition(m, amm, pos, quote, lev, limit)
           = DecreasePosition(m, amm, pos, lev * quote, limit)
      \/ OpenReversePosition(m, amm, pos, quote, lev, limit)
           = CloseAndOpenReversePosition(m, amm, pos, quote, lev, limit)
  BY DEF OpenReversePosition, Failed
<1> QED BY <1>1, <1>2, DecreaseResponse, CloseAndOpenResponse

\* The response of OpenPosition
LEMMA OpenResponseIs ==
    ASSUME NEW m, NEW amm, Pool(amm), NEW pos, IsPosition(pos), NEW dir,
           NEW quote \in Int, NEW lev \in Int, NEW limit,
           OpenResponse(m, amm, pos, dir, quote, lev, limit).ok
    PROVE  IsResponse(OpenResponse(m, amm, pos, dir, quote, lev, limit), amm, pos)
<1>1. lev * quote \in Int
  OBVIOUS
<1>2. \/ OpenResponse(m, amm, pos, dir, quote, lev, limit)
           = IncreasePosition(m, amm, pos, dir, lev * quote, limit, lev)
      \/ OpenResponse(m, amm, pos, dir, quote, lev, limit)
           = OpenReversePosition(m, amm, pos, quote, lev, limit)
  BY DEF OpenResponse
<1> QED BY <1>1, <1>2, IncreaseResponse, ReverseResponse

-----------------------------------------------------------------------------
(* Stores. *)

IsHistory(h) == h \in [credit : {h.credit}, dropped : Int, funding : {h.funding}]

IsStore(s) ==
    /\ s \in [markets : {s.markets}, amms : {s.amms}, positions : {s.positions},
              bank : {s.bank}, history : {s.history}]
    /\ DOMAIN s.amms = Pairs
    /\ \A p \in Pairs : Pool(s.amms[p])
    /\ DOMAIN s.positions = Pairs
    /\ \A p \in Pairs : /\ DOMAIN s.positions[p] = Traders
                         /\ \A t \in Traders : IsPosition(s.positions[p][t])
    /\ DOMAIN s.history = Pairs
    /\ \A p \in Pairs : IsHistory(s.history[p])

SizesIn(s, p) == [t \in Traders |-> s.positions[p][t].size]
NetSizeIn(s, p) == SumOf(SizesIn(s, p), NumTraders)

\* The inductive invariant, on a store.
StoreOK(s) ==
    /\ IsStore(s)
    /\ \A p \in Pairs : Bias(s.amms[p]) = NetSizeIn(s, p) + s.history[p].dropped

\* u differs from s in markets, balances and credits only.
Neutral(s, u) ==
    /\ IsStore(u)
    /\ u.amms = s.amms
    /\ u.positions = s.positions
    /\ \A p \in Pairs : u.history[p].dropped = s.history[p].dropped

IsRecord(u) ==
    u \in [markets : {u.markets}, amms : {u.amms}, positions : {u.positions},
           bank : {u.bank}, history : {u.history}]

\* A change of markets, balances and one pair's credit is neutral.
LEMMA CreditNeutral ==
    ASSUME NEW s, IsStore(s), NEW p \in Pairs, NEW u, IsRecord(u), NEW c,
           u.amms = s.amms, u.positions = s.positions,
           u.history = s.history \/ u.history = [s.history EXCEPT ![p].credit = c]
    PROVE  Neutral(s, u)
<1> DEFINE h == [s.history EXCEPT ![p].credit = c]
<1>1. DOMAIN h = Pairs /\ \A q \in Pairs : IsHistory(h[q]) /\ h[q].dropped = s.history[q].dropped
  BY DEF IsStore, IsHistory
<1> HIDE DEF h
<1> QED BY <1>1 DEF Neutral, IsStore, IsRecord, h

\* Neutral changes compose.
LEMMA NeutralTrans ==
    ASSUME NEW s, NEW u, NEW v, Neutral(s, u), Neutral(u, v)
    PROVE  Neutral(s, v)
BY DEF Neutral

\* Withdraw pays out of the vault and the fund.
LEMMA WithdrawNeutral ==
    ASSUME NEW s, IsStore(s), NEW p \in Pairs, NEW m, NEW receiver, NEW amt
    PROVE  Neutral(s, Withdraw(s, p, m, receiver, amt))
<1> DEFINE u == Withdraw(s, p, m, receiver, amt)
           c == s.history[p].credit + Shortage(s.bank, amt)
<1>1. CASE amt <= 0
  BY <1>1 DEF Withdraw, Neutral
<1>2. CASE ~ (amt <= 0)
  <2>1. /\ u.amms = s.amms
        /\ u.positions = s.positions
        /\ u.history = [s.history EXCEPT ![p].credit = c]
        /\ IsRecord(u)
    BY <1>2 DEF Withdraw, IsStore, IsRecord
  <2> HIDE DEF u, c
  <2>2. Neutral(s, u)
    BY <2>1, CreditNeutral
  <2> QED BY <2>2 DEF u
<1> QED BY <1>1, <1>2

\* realizeBadDebt moves money from the fund to the vault.
LEMMA RealizeNeutral ==
    ASSUME NEW s, IsStore(s), NEW p \in Pairs, NEW m, NEW debt
    PROVE  Neutral(s, RealizeBadDebt(s, p, m, debt))
<1> DEFINE u == RealizeBadDebt(s, p, m, debt)
           c == s.history[p].credit - MinDec(m.prepaid, debt)
<1>1. /\ u.amms = s.amms
      /\ u.positions = s.positions
      /\ u.history = [s.history EXCEPT ![p].credit = c]
      /\ IsRecord(u)
  BY DEF RealizeBadDebt, IsStore, IsRecord
<1> HIDE DEF u, c
<1>2. Neutral(s, u)
  BY <1>1, CreditNeutral
<1> QED BY <1>2 DEF u

\* The payment between the trader and the vault.
LEMMA PayVaultNeutral ==
    ASSUME NEW s, IsStore(s), NEW p \in Pairs, NEW m, NEW t, NEW amt
    PROVE  Neutral(s, PayVault(s, p, m, t, amt))
<1> DEFINE u == [s EXCEPT !.bank = Send(@, t, Vault, amt)]
<1>1. u.amms = s.amms /\ u.positions = s.positions /\ u.history = s.history /\ IsRecord(u)
  BY DEF IsStore, IsRecord
<1> HIDE DEF u
<1>2. Neutral(s, u)
  BY <1>1, CreditNeutral
<1> QED BY <1>2, WithdrawNeutral DEF PayVault, u

-----------------------------------------------------------------------------
(* Handlers. *)

\* Money moving about keeps the invariant.
LEMMA NeutralOK ==
    ASSUME NEW s, StoreOK(s), NEW u, Neutral(s, u)
    PROVE  StoreOK(u)
<1>1. \A p \in Pairs : NetSizeIn(u, p) = NetSizeIn(s, p)
  BY DEF NetSizeIn, SizesIn, Neutral
<1> QED BY <1>1 DEF StoreOK, Neutral

\* Changing the size of one trader's position.
LEMMA NetSizeUpdate ==
    ASSUME NEW s, NEW u, NEW p, NEW t \in 1..NumTraders,
           SizesIn(s, p) \in [1..NumTraders -> Int],
           SizesIn(u, p) \in [1..NumTraders -> Int],
           \A y \in 1..NumTraders : y # t => SizesIn(u, p)[y] = SizesIn(s, p)[y]
    PROVE  NetSizeIn(u, p) = NetSizeIn(s, p) + (SizesIn(u, p)[t] - SizesIn(s, p)[t])
BY PerpAssumption, SumOfUpdate DEF NetSizeIn

\* u is s after trader t's position in p became q and the pool a; what the
\* position does not record, the ghost does.
Traded(s, u, p, t, a, q) ==
    /\ Pool(a)
    /\ IsPosition(q)
    /\ IsRecord(u)
    /\ u.amms = [s.amms EXCEPT ![p] = a]
    /\ u.positions = [s.positions EXCEPT ![p][t] = q]
    /\ DOMAIN u.history = Pairs
    /\ \A x \in Pairs : /\ IsHistory(u.history[x])
                        /\ x # p => u.history[x].dropped = s.history[x].dropped
    /\ Bias(a) = Bias(s.amms[p]) + (q.size - s.positions[p][t].size)
                                 + (u.history[p].dropped - s.history[p].dropped)

\* Such a trade keeps the invariant.
LEMMA TradeOK ==
    ASSUME NEW s, StoreOK(s), NEW p \in Pairs, NEW t \in Traders,
           NEW u, NEW a, NEW q, Traded(s, u, p, t, a, q)
    PROVE  StoreOK(u)
<1> USE DEF Traded
<1>1. IsStore(s) /\ p \in DOMAIN s.amms /\ p \in DOMAIN s.positions /\ p \in DOMAIN s.history
  BY DEF StoreOK, IsStore
<1>2. DOMAIN u.amms = Pairs /\ \A x \in Pairs : u.amms[x] = IF x = p THEN a ELSE s.amms[x]
  BY <1>1 DEF IsStore
<1>3. /\ DOMAIN u.positions = Pairs
      /\ \A x \in Pairs :
            /\ DOMAIN u.positions[x] = Traders
            /\ \A y \in Traders :
                  u.positions[x][y] = IF x = p /\ y = t THEN q ELSE s.positions[x][y]
  BY <1>1 DEF IsStore
<1>5. IsStore(u)
  BY <1>1, <1>2, <1>3 DEF IsStore, IsRecord
<1>6. NumTraders \in Nat /\ Traders = 1..NumTraders
  BY PerpAssumption DEF Traders
<1>7. \A x \in Pairs : SizesIn(u, x) \in [1..NumTraders -> Int]
                       /\ SizesIn(s, x) \in [1..NumTraders -> Int]
  BY <1>1, <1>5, <1>6 DEF SizesIn, IsStore, IsPosition
<1>8. ASSUME NEW x \in Pairs
      PROVE  Bias(u.amms[x]) = NetSizeIn(u, x) + u.history[x].dropped
  <2>1. CASE x # p
    <3>1. SizesIn(u, x) = SizesIn(s, x)
      BY <1>3, <2>1 DEF SizesIn
    <3> QED BY <1>2, <2>1, <3>1 DEF StoreOK, NetSizeIn
  <2>2. CASE x = p
    <3>1. \A y \in 1..NumTraders : y # t => SizesIn(u, p)[y] = SizesIn(s, p)[y]
      BY <1>3, <1>6 DEF SizesIn
    <3>2. SizesIn(u, p)[t] = q.size /\ SizesIn(s, p)[t] = s.positions[p][t].size
      BY <1>3, <1>6 DEF SizesIn
    <3>3. NetSizeIn(u, p) = NetSizeIn(s, p) + (q.size - s.positions[p][t].size)
      <4>1. /\ SizesIn(s, p) \in [1..NumTraders -> Int]
            /\ SizesIn(u, p) \in [1..NumTraders -> Int]
            /\ t \in 1..NumTraders
        BY <1>6, <1>7
      <4>2. NetSizeIn(u, p) = NetSizeIn(s, p) + (SizesIn(u, p)[t] - SizesIn(s, p)[t])
        BY ONLY <3>1, <4>1, NetSizeUpdate
      <4> QED BY <3>2, <4>2
    <3>4. /\ NetSizeIn(s, p) \in Int /\ q.size \in Int /\ s.positions[p][t].size \in Int
          /\ s.history[p].dropped \in Int /\ u.history[p].dropped \in Int
      BY <1>1, <1>6, <1>7, SumOfType DEF NetSizeIn, IsStore, IsPosition, IsHistory
    <3>5. Bias(s.amms[p]) = NetSizeIn(s, p) + s.history[p].dropped
      BY DEF StoreOK
    <3>6. u.amms[x] = a
      BY <1>2, <2>2
    <3> QED BY <2>2, <3>3, <3>4, <3>5, <3>6
  <2> QED BY <2>1, <2>2
<1> QED BY <1>5, <1>8 DEF StoreOK

\* afterPositionUpdate: what Kept drops, the ghost keeps.
LEMMA AfterPositionOK ==
    ASSUME NEW s, StoreOK(s), NEW p \in Pairs, NEW t \in Traders, NEW r,
           IsResponse(r, s.amms[p], s.positions[p][t])
    PROVE  StoreOK(AfterPositionUpdate(s, p, t, r))
<1> DEFINE paid == PayVault(s, p, s.markets[p], t, RoundInt(r.toVault))
           old == s.positions[p][t]
           q == Kept(old, r)
           d == Dropped(r)
           u == AfterPositionUpdate(s, p, t, r)
<1>1. Neutral(s, paid)
  BY PayVaultNeutral DEF StoreOK
<1>2. StoreOK(paid)
  BY <1>1, NeutralOK
<1>3. paid.amms = s.amms /\ paid.positions = s.positions /\ IsRecord(paid)
  BY <1>1 DEF Neutral, IsStore, IsRecord
<1> HIDE DEF paid
<1>4. /\ IsRecord(u)
      /\ u.amms = [paid.amms EXCEPT ![p] = r.amm]
      /\ u.positions = [paid.positions EXCEPT ![p][t] = q]
      /\ u.history = [paid.history EXCEPT ![p].dropped = @ + d]
  BY <1>3 DEF AfterPositionUpdate, IsRecord, paid
<1>5. IsPosition(old) /\ old.size \in Int
  BY DEF StoreOK, IsStore, IsPosition
<1>6. /\ IsPosition(q)
      /\ d \in Int
      /\ Bias(r.amm) = Bias(s.amms[p]) + (q.size - old.size) + d
  <2>1. /\ r.size \in Int /\ r.pos.size \in Int /\ IsPosition(r.pos)
        /\ r.pos.size = old.size + r.size
        /\ Bias(r.amm) = Bias(s.amms[p]) + r.size
    BY DEF IsResponse, IsPosition
  <2>2. Bias(s.amms[p]) \in Int
    BY DEF StoreOK, IsStore, Pool, AmmType, Bias
  <2> HIDE DEF old
  <2>3. CASE r.pos.size # 0
    BY <1>5, <2>1, <2>2, <2>3 DEF Kept, Dropped
  <2>4. CASE r.pos.size = 0 /\ r.deleted
    BY <1>5, <2>1, <2>2, <2>4, ZeroIsPosition DEF Kept, Dropped
  <2>5. CASE r.pos.size = 0 /\ ~ r.deleted
    BY <1>5, <2>1, <2>2, <2>5 DEF Kept, Dropped
  <2> QED BY <2>3, <2>4, <2>5
<1>7. Pool(r.amm)
  BY DEF IsResponse
<1> HIDE DEF q, d, u
<1>8. /\ DOMAIN u.history = Pairs
      /\ \A x \in Pairs : /\ IsHistory(u.history[x])
                          /\ x # p => u.history[x].dropped = s.history[x].dropped
      /\ d = u.history[p].dropped - s.history[p].dropped
  <2>1. /\ DOMAIN paid.history = Pairs
        /\ \A x \in Pairs : IsHistory(paid.history[x])
        /\ \A x \in Pairs : paid.history[x].dropped = s.history[x].dropped
    BY <1>1 DEF Neutral, IsStore
  <2> QED BY <1>4, <1>6, <2>1 DEF IsHistory
<1>9. \A x \in Pairs : paid.history[x].dropped = s.history[x].dropped
  BY <1>1 DEF Neutral
<1>10. Traded(paid, u, p, t, r.amm, q)
  BY <1>3, <1>4, <1>6, <1>7, <1>8, <1>9 DEF Traded
<1>11. StoreOK(u)
  BY <1>2, <1>10, TradeOK
<1> QED BY <1>11 DEF u

\* A liquidation that succeeded left the pool and the position in step; one that
\* did not left them alone.
LEMMA DistributeNeutral ==
    ASSUME NEW s, IsStore(s), NEW p \in Pairs, NEW m, NEW l, NEW f, NEW c
    PROVE  Neutral(s, DistributeLiquidateRewards(s, p, m, l, f, c))
<1> DEFINE u == [s EXCEPT !.bank = Send(@, Vault, PerpEF, f)]
<1>1. u.amms = s.amms /\ u.positions = s.positions /\ u.history = s.history /\ IsRecord(u)
  BY DEF IsStore, IsRecord
<1> HIDE DEF u
<1>2. Neutral(s, u)
  BY <1>1, CreditNeutral
<1>3. Neutral(u, Withdraw(u, p, m, l, c))
  BY <1>2, WithdrawNeutral DEF Neutral
<1>4. Neutral(s, Withdraw(u, p, m, l, c))
  BY <1>2, <1>3, NeutralTrans
<1> QED BY <1>4 DEF DistributeLiquidateRewards, u

\* The change both kinds of liquidation make to pool and position.
LEMMA LiquidationTradeOK ==
    ASSUME NEW s, StoreOK(s), NEW p \in Pairs, NEW t \in Traders, NEW r, NEW q,
           IsResponse(r, s.amms[p], s.positions[p][t]),
           IsPosition(q), q.size = r.pos.size
    PROVE  StoreOK([s EXCEPT !.amms[p] = r.amm, !.positions[p][t] = q])
<1> DEFINE u == [s EXCEPT !.amms[p] = r.amm, !.positions[p][t] = q]
<1>1. /\ IsRecord(u)
      /\ u.amms = [s.amms EXCEPT ![p] = r.amm]
      /\ u.positions = [s.positions EXCEPT ![p][t] = q]
      /\ u.history = s.history
  BY DEF StoreOK, IsStore, IsRecord
<1>2. /\ s.positions[p][t].size \in Int
      /\ Bias(s.amms[p]) \in Int
      /\ Pool(r.amm)
  BY DEF StoreOK, IsStore, IsPosition, Pool, AmmType, Bias, IsResponse
<1>3. /\ DOMAIN u.history = Pairs
      /\ \A x \in Pairs : IsHistory(u.history[x])
      /\ u.history[p].dropped = s.history[p].dropped
      /\ s.history[p].dropped \in Int
  BY <1>1 DEF StoreOK, IsStore, IsHistory
<1> HIDE DEF u
<1>4. Bias(r.amm) = Bias(s.amms[p]) + (q.size - s.positions[p][t].size)
                                    + (u.history[p].dropped - s.history[p].dropped)
  BY <1>2, <1>3 DEF IsResponse
<1>5. Traded(s, u, p, t, r.amm, q)
  BY <1>1, <1>2, <1>3, <1>4 DEF Traded
<1>6. StoreOK(u)
  BY <1>5, TradeOK
<1> QED BY <1>6 DEF u

\* executeFullLiquidation
LEMMA FullLiquidationOK ==
    ASSUME NEW s, StoreOK(s), NEW p \in Pairs, NEW t \in Traders, NEW l
    PROVE  StoreOK(FullLiquidation(s, p, t, l).store)
<1> DEFINE m == s.markets[p]
           pos == s.positions[p][t]
           r == ClosePositionEntirely(m, s.amms[p], pos)
           fee == QuoInt(Mul(Params[p].liquidationFee, r.notional), 2)
           remaining == Abs(r.toVault)
           badDebt == RoundInt(r.badDebt + MaxDec(0, fee - remaining))
           toFund == RoundInt(MaxDec(0, remaining - fee))
           closed == [s EXCEPT !.amms[p] = r.amm, !.positions[p][t] = ZeroPosition]
           realized == IF r.badDebt + MaxDec(0, fee - remaining) > 0
                       THEN RealizeBadDebt(closed, p, m, badDebt) ELSE closed
           u == DistributeLiquidateRewards(realized, p, m, l, toFund, RoundInt(fee))
<1>1. \/ FullLiquidation(s, p, t, l).store = s
      \/ r.ok /\ FullLiquidation(s, p, t, l).store = u
  BY DEF FullLiquidation, Outcome
<1>2. ASSUME r.ok PROVE StoreOK(u)
  <2>1. Pool(s.amms[p]) /\ IsPosition(pos)
    BY DEF StoreOK, IsStore
  <2>2. IsResponse(r, s.amms[p], pos) /\ r.pos = ZeroPosition
    BY <1>2, <2>1, CloseResponse
  <2>3. StoreOK(closed)
    <3> HIDE DEF r
    <3> QED BY <2>2, ZeroIsPosition, LiquidationTradeOK
  <2> HIDE DEF closed, badDebt, m, fee, remaining, r, toFund
  <2>4. StoreOK(realized)
    <3>1. Neutral(closed, RealizeBadDebt(closed, p, m, badDebt))
      BY <2>3, RealizeNeutral DEF StoreOK
    <3> QED BY <2>3, <3>1, NeutralOK
  <2> HIDE DEF realized
  <2>5. Neutral(realized, u)
    BY <2>4, DistributeNeutral DEF StoreOK
  <2> QED BY <2>4, <2>5, NeutralOK
<1> HIDE DEF r, u
<1> QED BY <1>1, <1>2

\* Funding the trader is let off changes neither pools, positions nor money.
LEMMA LetOffNeutral ==
    ASSUME NEW s, IsStore(s), NEW p \in Pairs, NEW debt
    PROVE  /\ Neutral(s, LetOff(s, p, debt))
           /\ LetOff(s, p, debt).bank = s.bank
           /\ LetOff(s, p, debt).markets = s.markets
           /\ \A x \in Pairs : LetOff(s, p, debt).history[x].credit = s.history[x].credit
<1> DEFINE u == LetOff(s, p, debt)
           h == [s.history EXCEPT ![p].funding = @ - debt]
<1>1. /\ IsRecord(u) /\ u.amms = s.amms /\ u.positions = s.positions
      /\ u.bank = s.bank /\ u.markets = s.markets /\ u.history = h
  BY DEF LetOff, IsStore, IsRecord
<1>2. DOMAIN h = Pairs /\ \A x \in Pairs : /\ IsHistory(h[x])
                                          /\ h[x].dropped = s.history[x].dropped
                                          /\ h[x].credit = s.history[x].credit
  BY DEF IsStore, IsHistory
<1> HIDE DEF u, h
<1>3. /\ Neutral(s, u) /\ u.bank = s.bank /\ u.markets = s.markets
      /\ \A x \in Pairs : u.history[x].credit = s.history[x].credit
  BY <1>1, <1>2 DEF Neutral, IsStore, IsRecord
<1> QED BY <1>3 DEF u

\* executePartialLiquidation
LEMMA PartialLiquidationOK ==
    ASSUME NEW s, StoreOK(s), NEW p \in Pairs, NEW t \in Traders, NEW l
    PROVE  StoreOK(PartialLiquidation(s, p, t, l).store)
<1> DEFINE m == s.markets[p]
           amm == s.amms[p]
           pos == s.positions[p][t]
           reserve == GetQuoteReserveAmt(amm, PartialSize(p, pos), ExitDir(pos))
           quote == FromQuoteReserveToAsset(amm, reserve)
           r == DecreasePosition(m, amm, pos, quote, 0)
           fee == Mul(quote, Params[p].liquidationFee)
           toLiquidator == RoundInt(QuoInt(fee, 2))
           toFund == RoundInt(fee - QuoInt(fee, 2))
           left == [r.pos EXCEPT !.margin = @ - fee]
           decreased == [s EXCEPT !.amms[p] = r.amm, !.positions[p][t] = left]
           u == DistributeLiquidateRewards(decreased, p, m, l, toFund, toLiquidator)
           can == CanGetQuoteReserveAmt(amm, PartialSize(p, pos), ExitDir(pos))
<1>1. \/ PartialLiquidation(s, p, t, l).store = s
      \/ can /\ r.ok /\ PartialLiquidation(s, p, t, l).store = LetOff(u, p, r.badDebt)
  BY DEF PartialLiquidation, Outcome
<1>2. ASSUME can, r.ok PROVE StoreOK(u)
  <2>1. Pool(amm) /\ IsPosition(pos) /\ amm.peg \in Int /\ pos.size \in Int
    BY DEF StoreOK, IsStore, IsPosition, Pool, AmmType
  <2>2. PartialSize(p, pos) \in Int
    BY <2>1, MulType, InputAssumption DEF PartialSize
  <2>3. quote \in Int
    <3>1. reserve \in Int
      BY <1>2, <2>1, <2>2, QuoteReserveType
    <3> QED BY <2>1, <3>1, MulType DEF FromQuoteReserveToAsset
  <2>4. IsResponse(r, amm, pos)
    <3> HIDE DEF quote
    <3> QED BY <1>2, <2>1, <2>3, DecreaseResponse
  <2> HIDE DEF r, fee, toLiquidator, toFund
  <2>5. IsPosition(left) /\ left.size = r.pos.size
    BY <2>4 DEF IsResponse, IsPosition
  <2> HIDE DEF left
  <2>6. StoreOK(decreased)
    BY <2>4, <2>5, LiquidationTradeOK
  <2> HIDE DEF decreased, m
  <2>7. Neutral(decreased, u)
    BY <2>6, DistributeNeutral DEF StoreOK
  <2> QED BY <2>6, <2>7, NeutralOK
<1> HIDE DEF r, u, can
<1>3. ASSUME can, r.ok PROVE StoreOK(LetOff(u, p, r.badDebt))
  BY <1>2, <1>3, LetOffNeutral, NeutralOK DEF StoreOK
<1> QED BY <1>1, <1>3

\* liquidate, and with it any request of a MultiLiquidate
LEMMA LiquidateOneOK ==
    ASSUME NEW s, StoreOK(s), NEW p \in Pairs, NEW t \in Traders, NEW l
    PROVE  StoreOK(LiquidateOne(s, p, t, l).store)
<1>1. \/ LiquidateOne(s, p, t, l).store = s
      \/ LiquidateOne(s, p, t, l) = PartialLiquidation(s, p, t, l)
      \/ LiquidateOne(s, p, t, l) = FullLiquidation(s, p, t, l)
  BY DEF LiquidateOne, Outcome
<1> QED BY <1>1, PartialLiquidationOK, FullLiquidationOK

\* The recursion of Outcomes.
IsOutcomes(g, s, reqs, l, n) ==
    g = [i \in 0..n |->
            IF i = 0 THEN Outcome("none", s)
            ELSE LiquidateOne(g[i - 1].store, reqs[i].pair, reqs[i].trader, l)]

\* It is well founded.
LEMMA OutcomesExist ==
    ASSUME NEW s, NEW reqs, NEW l, NEW n \in Nat
    PROVE  \E g : IsOutcomes(g, s, reqs, l, n)
<1> DEFINE Bad == {m \in Nat : ~ \E g : IsOutcomes(g, s, reqs, l, m)}
<1> SUFFICES ASSUME Bad # {} PROVE FALSE
  OBVIOUS
<1>1. PICK m \in Bad : \A k \in Bad : m <= k
  <2>1. Bad \subseteq Nat
    OBVIOUS
  <2> HIDE DEF Bad
  <2> QED BY <2>1, LeastNatural
<1>2. m # 0
  <2> DEFINE h == [i \in 0..0 |-> Outcome("none", s)]
  <2>1. IsOutcomes(h, s, reqs, l, 0)
    BY DEF IsOutcomes
  <2> QED BY <2>1
<1>3. m - 1 \in Nat /\ m - 1 \notin Bad
  BY <1>1, <1>2
<1>4. PICK g : IsOutcomes(g, s, reqs, l, m - 1)
  BY <1>3
<1> DEFINE h == [i \in 0..m |->
                    IF i < m THEN g[i]
                    ELSE LiquidateOne(g[m - 1].store, reqs[m].pair, reqs[m].trader, l)]
<1>5. IsOutcomes(h, s, reqs, l, m)
  <2>1. ASSUME NEW i \in 0..m
        PROVE  h[i] = IF i = 0 THEN Outcome("none", s)
                      ELSE LiquidateOne(h[i - 1].store, reqs[i].pair, reqs[i].trader, l)
    <3>1. CASE i < m
      BY <1>3, <1>4, <3>1 DEF IsOutcomes
    <3>2. CASE i = m
      BY <1>2, <1>3, <3>2
    <3> QED BY <3>1, <3>2
  <2> QED BY <2>1 DEF IsOutcomes
<1> QED BY <1>5

\* MultiLiquidate: the invariant holds after every request.
LEMMA OutcomesOK ==
    ASSUME NEW s, StoreOK(s), NEW l, NEW n \in Nat,
           NEW reqs \in [1..n -> [pair : Pairs, trader : Traders]], Len(reqs) = n
    PROVE  StoreOK(Outcomes(s, reqs, l)[n].store)
<1> DEFINE g == CHOOSE after : IsOutcomes(after, s, reqs, l, n)
<1>1. IsOutcomes(g, s, reqs, l, n)
  BY OutcomesExist, Zenon
<1>2. Outcomes(s, reqs, l) = g
  BY Zenon DEF Outcomes, IsOutcomes
<1> HIDE DEF g
<1> DEFINE Bad == {i \in 0..n : ~ StoreOK(g[i].store)}
<1>3. ASSUME Bad # {} PROVE FALSE
  <2>1. PICK m \in Bad : \A k \in Bad : m <= k
    <3>1. Bad \subseteq Nat
      OBVIOUS
    <3> HIDE DEF Bad
    <3> QED BY <1>3, <3>1, LeastNatural
  <2>2. m # 0
    BY <1>1 DEF IsOutcomes, Outcome
  <2>3. StoreOK(g[m - 1].store)
    BY <2>1, <2>2
  <2>4. g[m] = LiquidateOne(g[m - 1].store, reqs[m].pair, reqs[m].trader, l)
    BY <1>1, <2>2 DEF IsOutcomes
  <2>5. reqs[m].pair \in Pairs /\ reqs[m].trader \in Traders
    BY <2>2
  <2> QED BY <2>3, <2>4, <2>5, LiquidateOneOK
<1> QED BY <1>2, <1>3

-----------------------------------------------------------------------------
(* The specification. *)

\* The inductive invariant.
IInv == StoreOK(Store)

\* u has the pools' biases and the positions' sizes of s.
Alike(s, u) ==
    /\ IsRecord(u)
    /\ DOMAIN u.amms = Pairs
    /\ DOMAIN u.positions = Pairs
    /\ DOMAIN u.history = Pairs
    /\ \A p \in Pairs :
          /\ Pool(u.amms[p]) /\ Bias(u.amms[p]) = Bias(s.amms[p])
          /\ IsHistory(u.history[p]) /\ u.history[p].dropped = s.history[p].dropped
          /\ DOMAIN u.positions[p] = Traders
          /\ \A t \in Traders : /\ IsPosition(u.positions[p][t])
                                /\ u.positions[p][t].size = s.positions[p][t].size

\* The invariant depends on those only.
LEMMA AlikeOK ==
    ASSUME NEW s, StoreOK(s), NEW u, Alike(s, u)
    PROVE  StoreOK(u)
<1>1. IsStore(u)
  BY DEF Alike, IsStore, IsRecord
<1>2. \A p \in Pairs : SizesIn(u, p) = SizesIn(s, p)
  BY DEF SizesIn, Alike
<1> QED BY <1>1, <1>2 DEF StoreOK, NetSizeIn, Alike

\* The store after a step.
LEMMA PrimeOK ==
    ASSUME NEW u, StoreOK(u), Alike(u, StoreAfter)
    PROVE  IInv'
<1>1. StoreOK(StoreAfter)
  BY AlikeOK
<1>2. Store' = StoreAfter
  BY DEF Store, StoreAfter
<1> QED BY <1>1, <1>2 DEF IInv

\* A handler's store, committed.
LEMMA CommitOK ==
    ASSUME NEW s, StoreOK(s), Commit(s)
    PROVE  IInv'
<1>1. Alike(s, StoreAfter)
  BY DEF Alike, StoreOK, IsStore, IsRecord, Commit, StoreAfter
<1> QED BY <1>1, PrimeOK

\* What IInv says of the variables.
LEMMA IInvFacts ==
    ASSUME IInv
    PROVE  /\ StoreOK(Store)
           /\ Store.amms = amms /\ Store.positions = positions
           /\ Store.markets = markets /\ Store.history = history
           /\ DOMAIN amms = Pairs /\ DOMAIN positions = Pairs /\ DOMAIN history = Pairs
           /\ \A p \in Pairs :
                 /\ Pool(amms[p])
                 /\ IsHistory(history[p])
                 /\ DOMAIN positions[p] = Traders
                 /\ \A t \in Traders : IsPosition(positions[p][t])
<1>1. Store.amms = amms /\ Store.positions = positions
      /\ Store.markets = markets /\ Store.history = history
  BY DEF Store
<1>2. StoreOK(Store) /\ IsStore(Store)
  BY DEF IInv, StoreOK
<1> QED BY <1>1, <1>2 DEF IsStore

\* The genesis state.
LEMMA InitOK == Init => IInv
<1> SUFFICES ASSUME Init PROVE StoreOK(Store)
  BY DEF IInv
<1>1. Store = [markets |-> markets, amms |-> amms, positions |-> positions,
               bank |-> bank, history |-> history]
  BY DEF Store
<1>2. IsStore(Store)
  <2>1. /\ DOMAIN Store.positions = Pairs
        /\ \A p \in Pairs : /\ DOMAIN Store.positions[p] = Traders
                             /\ \A t \in Traders : IsPosition(Store.positions[p][t])
    BY ZeroIsPosition DEF Init, Store
  <2>2. /\ DOMAIN Store.history = Pairs
        /\ \A p \in Pairs : IsHistory(Store.history[p])
    BY DEF Init, Store, NoHistory, IsHistory
  <2>3. /\ DOMAIN Store.amms = Pairs
        /\ \A p \in Pairs : Pool(Store.amms[p])
    BY GenesisAssumption DEF Init, Store, Pool, ValidAmm
  <2> QED BY <1>1, <2>1, <2>2, <2>3 DEF IsStore
<1>3. ASSUME NEW p \in Pairs
      PROVE  Bias(Store.amms[p]) = NetSizeIn(Store, p) + Store.history[p].dropped
  <2>1. \A t \in 1..NumTraders : SizesIn(Store, p)[t] = 0
    BY ZeroIsPosition DEF Init, Store, SizesIn, Traders
  <2>2. NetSizeIn(Store, p) = 0
    BY <2>1, PerpAssumption, SumOfZero DEF NetSizeIn
  <2>3. Store.history[p].dropped = 0
    BY DEF Init, Store, NoHistory
  <2>4. Bias(Store.amms[p]) = 0
    BY GenesisAssumption DEF Init, Store
  <2> QED BY <2>2, <2>3, <2>4
<1> QED BY <1>2, <1>3 DEF StoreOK

\* Opening, adding to, reducing and reversing a position
LEMMA OpenPositionOK ==
    ASSUME IInv, NEW t \in Traders, NEW p \in Pairs, NEW dir,
           NEW quote \in Int, NEW lev \in Int, NEW limit,
           OpenPosition(t, p, dir, quote, lev, limit)
    PROVE  IInv'
<1> DEFINE r == OpenResponse(markets[p], amms[p], positions[p][t], dir, quote, lev, limit)
<1>1. r.ok /\ Commit(AfterPositionUpdate(Store, p, t, r))
  BY DEF OpenPosition
<1>2. IsResponse(r, amms[p], positions[p][t])
  BY <1>1, IInvFacts, OpenResponseIs
<1> HIDE DEF r
<1>3. StoreOK(AfterPositionUpdate(Store, p, t, r))
  BY <1>2, IInvFacts, AfterPositionOK
<1> QED BY <1>1, <1>3, CommitOK

\* Closing it
LEMMA ClosePositionOK ==
    ASSUME IInv, NEW t \in Traders, NEW p \in Pairs, ClosePosition(t, p)
    PROVE  IInv'
<1> DEFINE r == ClosePositionEntirely(markets[p], amms[p], positions[p][t])
<1>1. r.ok /\ Commit(AfterPositionUpdate(Store, p, t, r))
  BY DEF ClosePosition
<1>2. IsResponse(r, amms[p], positions[p][t])
  BY <1>1, IInvFacts, CloseResponse
<1> HIDE DEF r
<1>3. StoreOK(AfterPositionUpdate(Store, p, t, r))
  BY <1>2, IInvFacts, AfterPositionOK
<1> QED BY <1>1, <1>3, CommitOK

\* A table of positions, and one in which t's position in p has another margin.
IsBook(ps) ==
    /\ DOMAIN ps = Pairs
    /\ \A x \in Pairs : DOMAIN ps[x] = Traders /\ \A y \in Traders : IsPosition(ps[x][y])
MarginChanged(ps, qs, p, t) ==
    \E margin, cpf : qs = [ps EXCEPT ![p][t].margin = margin, ![p][t].cpf = cpf]

\* Such a change leaves the sizes as they were.
LEMMA MarginChange ==
    ASSUME NEW ps, IsBook(ps), NEW p \in Pairs, NEW t \in Traders,
           NEW qs, MarginChanged(ps, qs, p, t)
    PROVE  IsBook(qs) /\ \A x \in Pairs, y \in Traders : qs[x][y].size = ps[x][y].size
<1>0. PICK margin, cpf : qs = [ps EXCEPT ![p][t].margin = margin, ![p][t].cpf = cpf]
  BY DEF MarginChanged
<1> DEFINE new == [ps[p][t] EXCEPT !.margin = margin, !.cpf = cpf]
<1>1. IsPosition(new) /\ new.size = ps[p][t].size
  BY DEF IsPosition, IsBook
<1>2. DOMAIN qs = Pairs /\ \A x \in Pairs : DOMAIN qs[x] = Traders
  BY <1>0 DEF IsBook
<1>3. \A x \in Pairs, y \in Traders : qs[x][y] = IF x = p /\ y = t THEN new ELSE ps[x][y]
  BY <1>0 DEF IsBook
<1> HIDE DEF new
<1> QED BY <1>1, <1>2, <1>3 DEF IsBook

\* The margin of a position has no part in the invariant.
LEMMA AddMarginOK ==
    ASSUME IInv, NEW t \in Traders, NEW p \in Pairs, NEW amt, AddMargin(t, p, amt)
    PROVE  IInv'
<1>1. MarginChanged(positions, positions', p, t)
  BY DEF AddMargin, MarginChanged
<1>2. amms' = amms /\ history' = history
  BY DEF AddMargin
<1>3. IsBook(positions)
  BY IInvFacts DEF IsBook
<1>4. IsBook(positions')
      /\ \A x \in Pairs, y \in Traders : positions'[x][y].size = positions[x][y].size
  BY <1>1, <1>3, MarginChange
<1>5. Alike(Store, StoreAfter)
  BY <1>2, <1>4, IInvFacts DEF Alike, IsRecord, StoreAfter, IsBook
<1> QED BY <1>5, IInvFacts, PrimeOK

\* Nor has RemoveMargin's payment.
LEMMA RemoveMarginOK ==
    ASSUME IInv, NEW t \in Traders, NEW p \in Pairs, NEW amt, RemoveMargin(t, p, amt)
    PROVE  IInv'
<1> DEFINE w == Withdraw(Store, p, markets[p], t, amt)
<1>1. PICK margin, cpf :
          Commit([w EXCEPT !.positions[p][t].margin = margin, !.positions[p][t].cpf = cpf])
  BY DEF RemoveMargin
<1>2. Neutral(Store, w) /\ StoreOK(w) /\ IsStore(w)
  BY IInvFacts, WithdrawNeutral, NeutralOK DEF StoreOK
<1> HIDE DEF w
<1>3. /\ amms' = w.amms
      /\ history' = w.history
      /\ positions' = [w.positions EXCEPT ![p][t].margin = margin, ![p][t].cpf = cpf]
  BY <1>1, <1>2 DEF Commit, IsStore
<1>4. IsBook(positions')
      /\ \A x \in Pairs, y \in Traders : positions'[x][y].size = w.positions[x][y].size
  <2>1. MarginChanged(w.positions, positions', p, t)
    BY <1>3 DEF MarginChanged
  <2>2. IsBook(w.positions)
    BY <1>2 DEF IsStore, IsBook
  <2> QED BY <2>1, <2>2, MarginChange
<1>5. Alike(w, StoreAfter)
  BY <1>2, <1>3, <1>4 DEF Alike, IsRecord, StoreAfter, IsStore, IsBook
<1> QED BY <1>2, <1>5, PrimeOK

\* Liquidation
LEMMA MultiLiquidateOK ==
    ASSUME IInv, NEW l, NEW reqs \in Requests, MultiLiquidate(l, reqs)
    PROVE  IInv'
<1>1. PICK n \in 1..MaxRequests : reqs \in [1..n -> [pair : Pairs, trader : Traders]]
  BY DEF Requests
<1>2. n \in Nat /\ Len(reqs) = n
  BY <1>1
<1>3. StoreOK(Outcomes(Store, reqs, l)[n].store)
  BY <1>1, <1>2, IInvFacts, OutcomesOK
<1>4. Commit(Outcomes(Store, reqs, l)[n].store)
  BY <1>2 DEF MultiLiquidate
<1> QED BY <1>3, <1>4, CommitOK

\* Repegging
LEMMA EditPriceMultiplierOK ==
    ASSUME IInv, NEW p \in Pairs, NEW peg \in Int, EditPriceMultiplier(p, peg)
    PROVE  IInv'
<1>1. amms' = [amms EXCEPT ![p].peg = peg] /\ peg > 0
      /\ positions' = positions /\ history' = history
  BY DEF EditPriceMultiplier, CanRepeg
<1>2. DOMAIN amms' = Pairs
      /\ \A x \in Pairs : Pool(amms'[x]) /\ Bias(amms'[x]) = Bias(amms[x])
  BY <1>1, IInvFacts DEF Pool, AmmType, Bias
<1>3. Alike(Store, StoreAfter)
  BY <1>1, <1>2, IInvFacts DEF Alike, IsRecord, StoreAfter
<1> QED BY <1>3, IInvFacts, PrimeOK

\* Changing the depth of a pool: the totals stay, the reserves remain decimals.
LEMMA UpdatedPool ==
    ASSUME NEW amm, Pool(amm), NEW k \in Int, CanUpdateSwapInvariant(amm, k)
    PROVE  Pool(UpdateSwapInvariant(amm, k)) /\ Bias(UpdateSwapInvariant(amm, k)) = Bias(amm)
<1> DEFINE a == UpdateSwapInvariant(amm, k)
           depth == MustSqrtDec(k)
           multiplier == Quo(depth, amm.sqrtDepth)
<1>1. k > 0 /\ ValidAmm(a)
  BY DEF CanUpdateSwapInvariant
<1>2. /\ amm \in AmmType /\ amm.base \in Int /\ amm.quote \in Int
      /\ amm.sqrtDepth \in Int \ {0}
  BY DEF Pool, AmmType
<1>3. depth \in Int
  BY <1>1, MustSqrtDecType
<1>4. multiplier \in Int
  <2> HIDE DEF depth
  <2> QED BY <1>2, <1>3, QuoType
<1>5. Mul(amm.base, multiplier) \in Int /\ Mul(amm.quote, multiplier) \in Int
  <2> HIDE DEF multiplier
  <2> QED BY <1>2, <1>4, MulType
<1>6. a = [amm EXCEPT !.sqrtDepth = depth,
                      !.base = Mul(amm.base, multiplier),
                      !.quote = Mul(amm.quote, multiplier)]
  BY Zenon DEF UpdateSwapInvariant
<1> HIDE DEF a, depth, multiplier
<1>7. a \in AmmType /\ a.totalLong = amm.totalLong /\ a.totalShort = amm.totalShort
  BY <1>2, <1>3, <1>5, <1>6 DEF AmmType
<1>8. Pool(a) /\ Bias(a) = Bias(amm)
  BY <1>1, <1>7 DEF Pool, ValidAmm, Bias
<1> QED BY <1>8 DEF a

\* A new depth scales the reserves and leaves the bias (EditSwapInvariant).
LEMMA EditSwapInvariantOK ==
    ASSUME IInv, NEW p \in Pairs, NEW k \in Int, EditSwapInvariant(p, k)
    PROVE  IInv'
<1> DEFINE a == UpdateSwapInvariant(amms[p], k)
<1>1. /\ amms' = [amms EXCEPT ![p] = a] /\ CanUpdateSwapInvariant(amms[p], k)
      /\ positions' = positions /\ history' = history
  BY DEF EditSwapInvariant
<1>2. Pool(a) /\ Bias(a) = Bias(amms[p])
  BY <1>1, IInvFacts, UpdatedPool
<1> HIDE DEF a
<1>3. DOMAIN amms' = Pairs
      /\ \A x \in Pairs : Pool(amms'[x]) /\ Bias(amms'[x]) = Bias(amms[x])
  BY <1>1, <1>2, IInvFacts
<1>4. Alike(Store, StoreAfter)
  BY <1>1, <1>3, IInvFacts DEF Alike, IsRecord, StoreAfter
<1> QED BY <1>4, IInvFacts, PrimeOK

\* Funding touches the premium fractions only.
LEMMA AfterEpochEndOK ==
    ASSUME IInv, NEW id, NEW index, AfterEpochEnd(id, index)
    PROVE  IInv'
<1>1. amms' = amms /\ positions' = positions
  BY DEF AfterEpochEnd
<1>2. /\ DOMAIN history' = Pairs
      /\ \A x \in Pairs : /\ IsHistory(history'[x])
                           /\ history'[x].dropped = history[x].dropped
  BY IInvFacts DEF AfterEpochEnd, IsHistory
<1>3. Alike(Store, StoreAfter)
  BY <1>1, <1>2, IInvFacts DEF Alike, IsRecord, StoreAfter
<1> QED BY <1>3, IInvFacts, PrimeOK

\* A step that changes no pool, position or ghost
LEMMA UnchangedOK ==
    ASSUME IInv, UNCHANGED <<amms, positions, history>>
    PROVE  IInv'
<1>1. Alike(Store, StoreAfter)
  BY IInvFacts DEF Alike, IsRecord, StoreAfter
<1> QED BY <1>1, IInvFacts, PrimeOK

\* Every step keeps the inductive invariant.
LEMMA NextOK == IInv /\ [Next]_vars => IInv'
<1> SUFFICES ASSUME IInv, [Next]_vars PROVE IInv'
  OBVIOUS
<1>1. ASSUME NEW t \in Traders, NEW p \in Pairs, NEW dir \in Directions,
             NEW quote \in QuoteAmounts, NEW lev \in Leverages, NEW limit \in BaseLimits,
             OpenPosition(t, p, dir, quote, lev, limit)
      PROVE  IInv'
  <2>1. quote \in Int /\ lev \in Int
    BY InputAssumption
  <2> QED BY <1>1, <2>1, OpenPositionOK
<1>2. ASSUME NEW t \in Traders, NEW p \in Pairs, ClosePosition(t, p) PROVE IInv'
  BY <1>2, ClosePositionOK
<1>3. ASSUME NEW t \in Traders, NEW p \in Pairs, NEW amt \in Margins, AddMargin(t, p, amt)
      PROVE  IInv'
  BY <1>3, AddMarginOK
<1>4. ASSUME NEW t \in Traders, NEW p \in Pairs, NEW amt \in Margins, RemoveMargin(t, p, amt)
      PROVE  IInv'
  BY <1>4, RemoveMarginOK
<1>5. ASSUME NEW l \in Liquidators, NEW reqs \in Requests, MultiLiquidate(l, reqs)
      PROVE  IInv'
  BY <1>5, MultiLiquidateOK
<1>6. ASSUME NEW t \in Traders, NEW amt \in Donations, DonateToEcosystemFund(t, amt)
      PROVE  IInv'
  BY <1>6, UnchangedOK DEF DonateToEcosystemFund
<1>7. ASSUME NEW p \in Pairs, NEW peg \in Pegs, EditPriceMultiplier(p, peg) PROVE IInv'
  BY <1>7, InputAssumption, EditPriceMultiplierOK
<1>8. ASSUME NEW p \in Pairs, NEW k \in SwapInvariants, EditSwapInvariant(p, k) PROVE IInv'
  BY <1>8, InputAssumption, EditSwapInvariantOK
<1>9. ASSUME NEW p \in Pairs, NEW enabled \in Toggles, ChangeMarketEnabledParameter(p, enabled)
      PROVE  IInv'
  BY <1>9, UnchangedOK DEF ChangeMarketEnabledParameter
<1>10. ASSUME NEW id, NEW index, AfterEpochEnd(id, index) PROVE IInv'
  BY <1>10, AfterEpochEndOK
<1>11. CASE NextBlock
  BY <1>11, UnchangedOK DEF NextBlock
<1>12. CASE UNCHANGED vars
  BY <1>12, UnchangedOK DEF vars
<1> QED
  BY <1>1, <1>2, <1>3, <1>4, <1>5, <1>6, <1>7, <1>8, <1>9, <1>10, <1>11, <1>12 DEF Next

\* The bias of every pool is the net size of the stored positions and the trades
\* afterPositionUpdate did not store, in every reachable state, for any number of
\* traders and markets, any parameters and any inputs.
THEOREM BiasAlwaysAccounted == Spec => []BiasAccounted
<1>1. IInv => BiasAccounted
  <2> SUFFICES ASSUME IInv, NEW p \in Pairs
               PROVE  Bias(amms[p]) = NetSize(p) + history[p].dropped
    BY DEF BiasAccounted
  <2>1. Bias(Store.amms[p]) = NetSizeIn(Store, p) + Store.history[p].dropped
    BY DEF IInv, StoreOK
  <2>2. NetSizeIn(Store, p) = NetSize(p)
    BY IInvFacts DEF NetSizeIn, SizesIn, NetSize, Sizes
  <2> QED BY <2>1, <2>2, IInvFacts
<1> QED BY <1>1, InitOK, NextOK, PTL DEF Spec

-----------------------------------------------------------------------------
(* Averages over the snapshots. *)

\* What the proofs need of a snapshot.
LEMMA SnapshotFacts ==
    ASSUME NEW snaps, IsSnapshots(snaps)
    PROVE  /\ DOMAIN snaps = 1..Len(snaps) /\ Len(snaps) \in Nat
           /\ \A i \in DOMAIN snaps : /\ snaps[i].ts \in Int
                                      /\ snaps[i].amm \in AmmType
                                      /\ ValidAmm(snaps[i].amm)
<1>1. /\ DOMAIN snaps = 1..Len(snaps) /\ Len(snaps) \in Nat
      /\ \A i \in DOMAIN snaps : snaps[i] \in [ts : Int, amm : AmmType]
  BY SeqElement, Zenon DEF IsSnapshots
<1> QED BY <1>1 DEF IsSnapshots

\* The snapshots of the genesis.
LEMMA SnapshotsAre == \A p \in Pairs : IsSnapshots(Snapshots[p])
BY SnapshotAssumption

\* A visited snapshot was in force for some time, unless it is the newest one.
LEMMA ElapsedNat ==
    ASSUME NEW snaps, IsSnapshots(snaps), NEW t \in Int, NEW lookback \in Nat,
           NEW i \in Visited(snaps, t, lookback)
    PROVE  /\ Elapsed(snaps, i, t, lookback) \in Nat
           /\ (\E j \in Visited(snaps, t, lookback) : j > i)
                 => Elapsed(snaps, i, t, lookback) > 0
<1>1. /\ i \in DOMAIN snaps /\ snaps[i].ts <= t
      /\ \A j \in DOMAIN snaps : j > i /\ snaps[j].ts <= t => snaps[j].ts > t - lookback
  BY DEF Visited
<1>2. DOMAIN snaps = 1..Len(snaps) /\ Len(snaps) \in Nat
      /\ \A j \in DOMAIN snaps : snaps[j].ts \in Int
  BY SnapshotFacts
<1>3. CASE i + 1 \in DOMAIN snaps /\ snaps[i + 1].ts <= t
  <2>1. snaps[i].ts < snaps[i + 1].ts /\ snaps[i + 1].ts > t - lookback
    BY <1>1, <1>2, <1>3 DEF IsSnapshots
  <2> QED BY <1>1, <1>2, <1>3, <2>1 DEF Elapsed
<1>4. CASE ~ (i + 1 \in DOMAIN snaps /\ snaps[i + 1].ts <= t)
  <2>1. Elapsed(snaps, i, t, lookback) \in Nat
    BY <1>1, <1>2, <1>4 DEF Elapsed
  <2>2. ASSUME NEW j \in Visited(snaps, t, lookback), j > i PROVE FALSE
    <3>1. j \in DOMAIN snaps /\ snaps[j].ts <= t
      BY DEF Visited
    <3>2. i + 1 \in DOMAIN snaps /\ i + 1 <= j
      BY <1>1, <1>2, <2>2, <3>1
    <3>3. i + 1 = j \/ snaps[i + 1].ts < snaps[j].ts
      BY <1>2, <3>1, <3>2 DEF IsSnapshots
    <3> QED BY <1>2, <1>4, <3>1, <3>2, <3>3
  <2> QED BY <2>1, <2>2
<1> QED BY <1>3, <1>4

\* The average is a decimal: the times it divides by do not add up to zero.
LEMMA TwapType ==
    ASSUME NEW snaps, IsSnapshots(snaps), NEW t \in Int, NEW lookback \in Nat,
           Visited(snaps, t, lookback) # {},
           NEW price \in [Visited(snaps, t, lookback) -> Int]
    PROVE  CalcTwap(snaps, price, t, lookback) \in Int
<1> DEFINE V == Visited(snaps, t, lookback)
           time == [i \in V |-> Elapsed(snaps, i, t, lookback)]
           weighted == [i \in V |-> price[i] * time[i]]
           n == Len(snaps)
<1>1. n \in Nat /\ V \subseteq 1..n
  BY SnapshotFacts DEF Visited
<1>2. time \in [V -> Nat]
  BY ElapsedNat
<1>3. weighted \in [V -> Int]
  <2>1. \A i \in V : price[i] * time[i] \in Int
    <3> HIDE DEF time, V
    <3> QED BY <1>2 DEF V
  <2> QED BY <2>1
<1>4. CalcTwap(snaps, price, t, lookback)
        = IF \E i \in V : V = {i} THEN price[CHOOSE i \in V : TRUE]
          ELSE QuoInt(SumOver(V, weighted, n), SumOver(V, time, n))
  BY Zenon DEF CalcTwap
<1>5. CASE \E i \in V : V = {i}
  <2>1. (CHOOSE i \in V : TRUE) \in V
    BY <1>5, Zenon
  <2> QED BY <1>4, <1>5, <2>1
<1>6. CASE ~ \E i \in V : V = {i}
  <2>1. PICK i \in V, j \in V : i < j
    <3>1. PICK i \in V : TRUE
      OBVIOUS
    <3>2. PICK j \in V : j # i
      BY <1>6, <3>1
    <3> HIDE DEF V, n
    <3>3. i < j \/ j < i
      BY <1>1, <3>2
    <3> QED BY <3>3
  <2>2. time[i] > 0
    <3>1. i \in Int /\ j \in Int
      BY <1>1
    <3> QED BY <2>1, <3>1, ElapsedNat
  <2> HIDE DEF V, time, weighted, n
  <2>3. SumOver(V, weighted, n) \in Int
    BY <1>1, <1>3, SumOverType
  <2>4. SumOver(V, time, n) \in Nat /\ time[i] <= SumOver(V, time, n)
    BY <1>1, <1>2, SumOverNat
  <2>5. SumOver(V, time, n) \in Nat \ {0}
    BY <1>2, <2>2, <2>4
  <2> QED BY <1>4, <1>6, <2>3, <2>5, QuotType DEF QuoInt
<1> QED BY <1>5, <1>6

\* The price of the market over the snapshots
LEMMA TwapSpotType ==
    ASSUME NEW snaps, IsSnapshots(snaps), NEW t \in Int, NEW lookback \in Nat,
           CanTwapSpot(snaps, t, lookback)
    PROVE  TwapSpot(snaps, t, lookback) \in Int
<1> DEFINE V == Visited(snaps, t, lookback)
           price == [i \in V |-> SnapshotSpot(snaps[i].amm)]
<1>1. ASSUME NEW i \in V PROVE SnapshotSpot(snaps[i].amm) \in Int
  <2> DEFINE amm == snaps[i].amm
  <2>1. amm \in AmmType /\ ValidAmm(amm)
    BY SnapshotFacts DEF Visited
  <2> HIDE DEF amm
  <2>2. amm.base \in Int \ {0} /\ amm.quote \in Int /\ amm.peg \in Int
    BY <2>1 DEF AmmType, ValidAmm
  <2>3. Mul(amm.quote, amm.peg) \in Int
    BY <2>2, MulType
  <2>4. SnapshotSpot(amm) \in Int
    BY <2>2, <2>3, QuoType DEF SnapshotSpot
  <2> QED BY <2>4 DEF amm
<1>2. price \in [V -> Int] /\ V # {}
  BY <1>1 DEF CanTwapSpot
<1> HIDE DEF price
<1>3. CalcTwap(snaps, price, t, lookback) \in Int
  BY <1>2, TwapType
<1> QED BY <1>3 DEF TwapSpot, price

\* The value of a position over the snapshots
LEMMA TwapBaseSwapType ==
    ASSUME NEW snaps, IsSnapshots(snaps), NEW t \in Int, NEW lookback \in Nat,
           NEW b \in Int, NEW dir, CanTwapBaseSwap(snaps, b, dir, t, lookback)
    PROVE  TwapBaseSwap(snaps, b, dir, t, lookback) \in Int
<1> DEFINE V == Visited(snaps, t, lookback)
           price == [i \in V |-> SnapshotBaseSwap(snaps[i].amm, b, dir)]
<1>1. ASSUME NEW i \in V PROVE SnapshotBaseSwap(snaps[i].amm, b, dir) \in Int
  <2> DEFINE amm == snaps[i].amm
  <2>0. amm \in AmmType /\ ValidAmm(amm) /\ CanGetQuoteReserveAmt(amm, b, dir)
    BY SnapshotFacts DEF Visited, CanTwapBaseSwap
  <2> HIDE DEF amm
  <2>1. Pool(amm) /\ amm.peg \in Int
    BY <2>0 DEF ValidAmm, Pool, AmmType
  <2>2. GetQuoteReserveAmt(amm, b, dir) \in Int
    BY <2>0, <2>1, QuoteReserveType
  <2>3. SnapshotBaseSwap(amm, b, dir) \in Int
    BY <2>1, <2>2, MulType DEF SnapshotBaseSwap, FromQuoteReserveToAsset
  <2> QED BY <2>3 DEF amm
<1>2. price \in [V -> Int] /\ V # {}
  BY <1>1 DEF CanTwapBaseSwap
<1> HIDE DEF price
<1>3. CalcTwap(snaps, price, t, lookback) \in Int
  BY <1>2, TwapType
<1> QED BY <1>3 DEF TwapBaseSwap, price

-----------------------------------------------------------------------------
(* Money: what a change to a position pays, and to whom. *)

MarketType == [enabled : BOOLEAN, cpf : Int, prepaid : Nat]

IsPayment(r) ==
    /\ r.pos \in PositionType
    /\ r.notional \in Nat
    /\ r.toVault \in Int
    /\ r.badDebt \in Nat

\* Positions of the type have a size.
LEMMA TypedPosition ==
    ASSUME NEW pos \in PositionType
    PROVE  /\ IsPosition(pos)
           /\ pos.stored \in BOOLEAN /\ pos.size \in Int /\ pos.margin \in Int
           /\ pos.openNotional \in Int /\ pos.cpf \in Int
BY DEF PositionType, IsPosition

\* Quote assets are worth a natural number of units.
LEMMA SwapBaseNat ==
    ASSUME NEW amm, Pool(amm), NEW b \in Int, NEW dir, CanGetQuoteReserveAmt(amm, b, dir)
    PROVE  SwapBaseDelta(amm, b, dir) \in Nat
<1>1. GetQuoteReserveAmt(amm, b, dir) \in Int
  BY QuoteReserveType
<1>2. GetQuoteReserveAmt(amm, b, dir) >= 0
  <2> DEFINE d == Quo(Invariant(amm), BaseAfter(amm, b, dir)) - amm.quote
  <2>1. CASE b <= 0
    BY <2>1 DEF GetQuoteReserveAmt
  <2>2. CASE b > 0
    <3>1. BaseAfter(amm, b, dir) \in Int \ {0} /\ amm.quote \in Int
      BY <2>2 DEF CanGetQuoteReserveAmt, BaseAfter, Pool, AmmType
    <3>2. Invariant(amm) \in Int
      BY MulType DEF Invariant, Pool, AmmType
    <3>3. d \in Int
      BY <3>1, <3>2, QuoType
    <3>4. GetQuoteReserveAmt(amm, b, dir) = Abs(d)
      BY <2>2 DEF GetQuoteReserveAmt
    <3> HIDE DEF d
    <3> QED BY <3>3, <3>4 DEF Abs
  <2> QED BY <2>1, <2>2
<1>3. amm.peg \in Nat
  BY DEF Pool, AmmType
<1>4. GetQuoteReserveAmt(amm, b, dir) \in Nat
  BY <1>1, <1>2
<1>5. Mul(GetQuoteReserveAmt(amm, b, dir), amm.peg) \in Nat
  BY <1>3, <1>4, MulBounds
<1> QED BY <1>5 DEF SwapBaseDelta, FromQuoteReserveToAsset

\* The value of a position
LEMMA SpotNat ==
    ASSUME NEW amm, Pool(amm), NEW pos \in PositionType, CanNotionalSpot(amm, pos)
    PROVE  PositionNotionalSpot(amm, pos) \in Nat
<1>1. Abs(pos.size) \in Int
  BY TypedPosition DEF Abs
<1>2. SwapBaseDelta(amm, Abs(pos.size), ExitDir(pos)) \in Nat
  BY <1>1, SwapBaseNat DEF CanNotionalSpot
<1> QED BY <1>2 DEF PositionNotionalSpot, SwapBaseDelta

\* Its profit and the funding it owes
LEMMA PnlType ==
    ASSUME NEW pos \in PositionType, NEW notional \in Int, NEW cpf \in Int
    PROVE  UnrealizedPnl(pos, notional) \in Int /\ FundingPayment(pos, cpf) \in Int
<1>1. cpf - pos.cpf \in Int /\ pos.size \in Int
  BY TypedPosition
<1>2. FundingPayment(pos, cpf) \in Int
  BY <1>1, MulType DEF FundingPayment
<1> QED BY <1>2, TypedPosition DEF UnrealizedPnl

\* increasePosition
LEMMA IncreasePayment ==
    ASSUME NEW m \in MarketType, NEW amm, Pool(amm), NEW pos \in PositionType, NEW dir,
           NEW notional \in Nat, NEW limit, NEW lev \in Nat \ {0},
           IncreasePosition(m, amm, pos, dir, notional, limit, lev).ok
    PROVE  IsPayment(IncreasePosition(m, amm, pos, dir, notional, limit, lev))
<1> DEFINE r == IncreasePosition(m, amm, pos, dir, notional, limit, lev)
           size == Signed(SwappedBase(amm, dir, notional), dir)
           margin == pos.margin + Quo(notional, lev) - FundingPayment(pos, m.cpf)
<1>1. CanSwapQuoteAsset(amm, dir, notional, limit)
  BY DEF IncreasePosition, Failed
<1>2. size \in Int
  BY <1>1, SwapQuoteBias
<1>3. m.cpf \in Int
  BY DEF MarketType
<1>4. Quo(notional, lev) \in Int
  BY QuoType
<1>5. margin \in Int
  BY <1>3, <1>4, PnlType, TypedPosition
<1>6. /\ r.pos = [stored |-> TRUE, size |-> pos.size + size, margin |-> MaxDec(0, margin),
                  openNotional |-> pos.openNotional + notional, cpf |-> m.cpf]
      /\ r.notional = notional
      /\ r.toVault = Quo(notional, lev)
      /\ r.badDebt = MaxDec(0, -margin)
  BY DEF IncreasePosition, Failed
<1> HIDE DEF r, size, margin
<1>7. /\ pos.size + size \in Int /\ MaxDec(0, margin) \in Int /\ MaxDec(0, -margin) \in Nat
      /\ pos.openNotional + notional \in Int
  BY <1>2, <1>5, TypedPosition DEF MaxDec
<1>8. r.pos \in PositionType
  BY <1>3, <1>6, <1>7 DEF PositionType
<1>9. IsPayment(r)
  BY <1>4, <1>6, <1>7, <1>8 DEF IsPayment
<1> QED BY <1>9 DEF r

\* decreasePosition
LEMMA DecreasePayment ==
    ASSUME NEW m \in MarketType, NEW amm, Pool(amm), NEW pos \in PositionType,
           NEW notional \in Nat, NEW limit,
           DecreasePosition(m, amm, pos, notional, limit).ok
    PROVE  IsPayment(DecreasePosition(m, amm, pos, notional, limit))
<1> DEFINE r == DecreasePosition(m, amm, pos, notional, limit)
           dir == ExitDir(pos)
           size == Signed(SwappedBase(amm, dir, notional), dir)
           current == PositionNotionalSpot(amm, pos)
           pnl == UnrealizedPnl(pos, current)
           part == Quo(Abs(size), Abs(pos.size))
           realized == Mul(pnl, part)
           margin == pos.margin + realized - FundingPayment(pos, m.cpf)
           open == IF pos.size > 0
                   THEN (current - notional) - (pnl - realized)
                   ELSE (current - notional) + (pnl - realized)
<1>1. /\ CanSwapQuoteAsset(amm, dir, notional, limit)
      /\ pos.size # 0
      /\ CanNotionalSpot(amm, pos)
  BY DEF DecreasePosition, CanDecrease, Failed
<1>2. size \in Int
  BY <1>1, SwapQuoteBias
<1>3. m.cpf \in Int /\ current \in Int
  BY <1>1, SpotNat DEF MarketType
<1>4. /\ r.pos = [stored |-> TRUE, size |-> pos.size + size, margin |-> MaxDec(0, margin),
                  openNotional |-> open, cpf |-> m.cpf]
      /\ r.notional = notional
      /\ r.toVault = 0
      /\ r.badDebt = MaxDec(0, -margin)
  BY DEF DecreasePosition, CanDecrease, RemainOpenNotional, Failed
<1> HIDE DEF r, size, current
<1>5. pnl \in Int /\ FundingPayment(pos, m.cpf) \in Int
  BY <1>3, PnlType
<1>6. Abs(size) \in Int /\ Abs(pos.size) \in Int \ {0}
  BY <1>1, <1>2, TypedPosition DEF Abs
<1>7. part \in Int
  BY <1>6, QuoType
<1> HIDE DEF pnl, part
<1>8. realized \in Int
  BY <1>5, <1>7, MulType
<1> HIDE DEF realized
<1>9. margin \in Int /\ open \in Int
  BY <1>3, <1>5, <1>8, TypedPosition
<1> HIDE DEF margin, open
<1>10. pos.size + size \in Int /\ MaxDec(0, margin) \in Int /\ MaxDec(0, -margin) \in Nat
  BY <1>2, <1>9, TypedPosition DEF MaxDec
<1>11. r.pos \in PositionType
  BY <1>3, <1>4, <1>9, <1>10 DEF PositionType
<1>12. IsPayment(r)
  BY <1>4, <1>10, <1>11 DEF IsPayment
<1> QED BY <1>12 DEF r

\* closePositionEntirely
LEMMA ClosePayment ==
    ASSUME NEW m \in MarketType, NEW amm, Pool(amm), NEW pos \in PositionType,
           ClosePositionEntirely(m, amm, pos).ok
    PROVE  IsPayment(ClosePositionEntirely(m, amm, pos))
<1> DEFINE r == ClosePositionEntirely(m, amm, pos)
           notional == SwapBaseDelta(amm, Abs(pos.size), ExitDir(pos))
           margin == pos.margin + UnrealizedPnl(pos, PositionNotionalSpot(amm, pos))
                     - FundingPayment(pos, m.cpf)
<1>1. CanNotionalSpot(amm, pos)
  BY DEF ClosePositionEntirely, Failed
<1>2. Abs(pos.size) \in Int
  BY TypedPosition DEF Abs
<1>3. notional \in Nat /\ PositionNotionalSpot(amm, pos) \in Int /\ m.cpf \in Int
  BY <1>1, <1>2, SwapBaseNat, SpotNat DEF CanNotionalSpot, MarketType
<1>4. margin \in Int
  BY <1>3, PnlType, TypedPosition
<1>5. /\ r.pos = ZeroPosition
      /\ r.notional = notional
      /\ r.toVault = -MaxDec(0, margin)
      /\ r.badDebt = MaxDec(0, -margin)
  BY DEF ClosePositionEntirely, Failed
<1>6. ZeroPosition \in PositionType
  BY DEF ZeroPosition, PositionType
<1> HIDE DEF r, notional, margin
<1>7. MaxDec(0, -margin) \in Nat /\ -MaxDec(0, margin) \in Int
  BY <1>4 DEF MaxDec
<1>8. IsPayment(r)
  BY <1>3, <1>5, <1>6, <1>7 DEF IsPayment
<1> QED BY <1>8 DEF r

\* closeAndOpenReversePosition
LEMMA CloseAndOpenPayment ==
    ASSUME NEW m \in MarketType, NEW amm, Pool(amm), NEW pos \in PositionType,
           NEW quote \in Nat, NEW lev \in Nat \ {0}, NEW limit,
           CloseAndOpenReversePosition(m, amm, pos, quote, lev, limit).ok
    PROVE  IsPayment(CloseAndOpenReversePosition(m, amm, pos, quote, lev, limit))
<1> DEFINE r == CloseAndOpenReversePosition(m, amm, pos, quote, lev, limit)
           close == ClosePositionEntirely(m, amm, pos)
           remaining == lev * quote - close.notional
           newLimit == IF limit > 0 THEN limit - Abs(close.size) ELSE limit
           open == IncreasePosition(m, close.amm, ZeroPosition, ExitDir(pos),
                                    remaining, newLimit, lev)
<1>1. close.ok /\ (r = close \/ (open.ok /\ ~ (remaining < 0)))
  BY DEF CloseAndOpenReversePosition, Failed
<1>2. IsPayment(close) /\ Pool(close.amm)
  BY <1>1, ClosePayment, CloseResponse, TypedPosition DEF IsResponse
<1>3. CASE r = close
  BY <1>2, <1>3
<1>4. CASE r # close
  <2>1. open.ok /\ ~ (remaining < 0)
    BY <1>1, <1>4
  <2>2. remaining \in Nat
    <3>1. remaining \in Int
      BY <1>2 DEF IsPayment
    <3> HIDE DEF remaining
    <3> QED BY <2>1, <3>1
  <2>3. ZeroPosition \in PositionType
    BY DEF ZeroPosition, PositionType
  <2>4. IsPayment(open)
    <3> HIDE DEF close, remaining, newLimit
    <3> QED BY <1>2, <2>1, <2>2, <2>3, IncreasePayment
  <2>5. open \in [ok : {open.ok}, amm : {open.amm}, pos : {open.pos},
                  deleted : {open.deleted}, notional : {open.notional},
                  size : {open.size}, badDebt : {open.badDebt}, toVault : {open.toVault}]
    <3> HIDE DEF close, remaining, newLimit
    <3> QED BY <2>1 DEF IncreasePosition, Failed
  <2>6. r = [open EXCEPT !.deleted = TRUE,
                         !.notional = @ + close.notional,
                         !.size = @ + close.size,
                         !.badDebt = @ + close.badDebt,
                         !.toVault = @ + close.toVault]
    BY <1>4, Zenon DEF CloseAndOpenReversePosition, Failed
  <2> HIDE DEF r, open, close, remaining
  <2>7. /\ r.pos = open.pos
        /\ r.notional = open.notional + close.notional
        /\ r.badDebt = open.badDebt + close.badDebt
        /\ r.toVault = open.toVault + close.toVault
    BY <2>5, <2>6
  <2>8. IsPayment(r)
    BY <1>2, <2>4, <2>7 DEF IsPayment
  <2> QED BY <2>8 DEF r
<1> QED BY <1>3, <1>4

\* The response of OpenPosition
LEMMA OpenPayment ==
    ASSUME NEW m \in MarketType, NEW amm, Pool(amm), NEW pos \in PositionType, NEW dir,
           NEW quote \in Nat, NEW lev \in Nat \ {0}, NEW limit,
           OpenResponse(m, amm, pos, dir, quote, lev, limit).ok
    PROVE  IsPayment(OpenResponse(m, amm, pos, dir, quote, lev, limit))
<1>1. lev * quote \in Nat
  OBVIOUS
<1>2. \/ OpenResponse(m, amm, pos, dir, quote, lev, limit)
           = IncreasePosition(m, amm, pos, dir, lev * quote, limit, lev)
      \/ OpenResponse(m, amm, pos, dir, quote, lev, limit)
           = DecreasePosition(m, amm, pos, lev * quote, limit)
      \/ OpenResponse(m, amm, pos, dir, quote, lev, limit)
           = CloseAndOpenReversePosition(m, amm, pos, quote, lev, limit)
  BY DEF OpenResponse, OpenReversePosition, Failed
<1> QED BY <1>1, <1>2, IncreasePayment, DecreasePayment, CloseAndOpenPayment

-----------------------------------------------------------------------------
(* Balances and credits. *)

\* No account is overdrawn, every collection has its type, and the prepaid bad
\* debt of a market covers the credit of the fund.
Funds(s) ==
    /\ s.markets \in [Pairs -> MarketType]
    /\ s.bank \in [Accounts -> Nat]
    /\ \A p \in Pairs : /\ s.history[p].credit \in Int
                        /\ s.history[p].credit <= s.markets[p].prepaid
                        /\ \A t \in Traders : s.positions[p][t] \in PositionType

\* The accounts of the module
LEMMA AccountsAre ==
    /\ Vault \in Accounts \ {PerpEF} /\ PerpEF \in Accounts \ {Vault}
    /\ FeePool \in Accounts
    /\ \A t \in Traders : t \in Accounts \ {Vault, PerpEF, FeePool}
<1>1. \A t \in Traders : t # -1 /\ t # -2 /\ t # -3
  BY PerpAssumption DEF Traders
<1> QED BY <1>1 DEF Accounts, Vault, PerpEF, FeePool

\* A payment the sender can make overdraws nobody.
LEMMA SendNat ==
    ASSUME NEW b \in [Accounts -> Nat], NEW from \in Accounts, NEW to \in Accounts \ {from},
           NEW amt \in Nat, CanSend(b, from, amt)
    PROVE  /\ Send(b, from, to, amt) \in [Accounts -> Nat]
           /\ Send(b, from, to, amt)[to] = b[to] + amt
           /\ Send(b, from, to, amt)[from] = b[from] - amt
BY DEF Send, CanSend

\* Withdraw takes what is missing in the vault from the fund.
LEMMA WithdrawNat ==
    ASSUME NEW b \in [Accounts -> Nat], NEW receiver \in Traders, NEW amt \in Int,
           CanWithdraw(b, amt), ~ (amt <= 0)
    PROVE  /\ Shortage(b, amt) \in Nat
           /\ Send(Send(b, PerpEF, Vault, Shortage(b, amt)), Vault, receiver, amt)
                 \in [Accounts -> Nat]
<1> DEFINE short == Shortage(b, amt)
           c == Send(b, PerpEF, Vault, short)
<1>1. short \in Nat /\ amt - b[Vault] <= short /\ b[Vault] \in Nat
  BY AccountsAre DEF Shortage, MaxDec
<1>2. CanSend(b, PerpEF, short)
  BY DEF CanWithdraw
<1> HIDE DEF short
<1>3. c \in [Accounts -> Nat] /\ c[Vault] = b[Vault] + short
  BY <1>1, <1>2, AccountsAre, SendNat
<1> HIDE DEF c
<1>4. amt \in Nat /\ CanSend(c, Vault, amt)
  BY <1>1, <1>3 DEF CanSend
<1>5. Send(c, Vault, receiver, amt) \in [Accounts -> Nat]
  BY <1>3, <1>4, AccountsAre, SendNat
<1> QED BY <1>1, <1>5 DEF short, c

\* A market with another prepaid bad debt
LEMMA PrepaidType ==
    ASSUME NEW m \in MarketType, NEW x \in Nat
    PROVE  [m EXCEPT !.prepaid = x] \in MarketType /\ [m EXCEPT !.prepaid = x].prepaid = x
BY DEF MarketType

\* The credit of one pair and its prepaid bad debt move together.
LEMMA CreditFunds ==
    ASSUME NEW s, IsStore(s), Funds(s), NEW p \in Pairs, NEW u, NEW m \in MarketType,
           NEW c \in Int, c <= m.prepaid,
           u.markets = [s.markets EXCEPT ![p] = m],
           u.history = [s.history EXCEPT ![p].credit = c],
           u.positions = s.positions, u.bank \in [Accounts -> Nat]
    PROVE  Funds(u)
<1>1. DOMAIN s.history = Pairs /\ \A x \in Pairs : IsHistory(s.history[x])
  BY DEF IsStore
<1>2. s.markets \in [Pairs -> MarketType]
  BY DEF Funds
<1>3. u.markets \in [Pairs -> MarketType]
      /\ \A x \in Pairs : u.markets[x] = IF x = p THEN m ELSE s.markets[x]
  BY <1>2
<1>4. \A x \in Pairs : u.history[x].credit = IF x = p THEN c ELSE s.history[x].credit
  BY <1>1 DEF IsHistory
<1> QED BY <1>3, <1>4 DEF Funds

\* Withdraw, with a copy m of the market that still covers the credit.
LEMMA WithdrawFunds ==
    ASSUME NEW s, IsStore(s), Funds(s), NEW p \in Pairs, NEW m \in MarketType,
           s.history[p].credit <= m.prepaid, NEW receiver \in Traders,
           NEW amt \in Int, CanWithdraw(s.bank, amt)
    PROVE  Funds(Withdraw(s, p, m, receiver, amt))
<1> DEFINE u == Withdraw(s, p, m, receiver, amt)
           short == Shortage(s.bank, amt)
           old == s.markets[p]
           new == IF short > 0 THEN [m EXCEPT !.prepaid = @ + short] ELSE old
           c == s.history[p].credit + short
<1>1. CASE amt <= 0
  BY <1>1 DEF Withdraw
<1>2. CASE ~ (amt <= 0)
  <2>1. /\ short \in Nat
        /\ Send(Send(s.bank, PerpEF, Vault, short), Vault, receiver, amt) \in [Accounts -> Nat]
    BY <1>2, WithdrawNat DEF Funds
  <2>2. /\ u.markets = [s.markets EXCEPT ![p] = new]
        /\ u.bank = Send(Send(s.bank, PerpEF, Vault, short), Vault, receiver, amt)
        /\ u.history = [s.history EXCEPT ![p].credit = c]
        /\ u.positions = s.positions
    BY <1>2 DEF Withdraw, IsStore
  <2>3. /\ old \in MarketType /\ old.prepaid \in Nat /\ m.prepaid \in Nat
        /\ s.history[p].credit \in Int /\ s.history[p].credit <= old.prepaid
    BY DEF Funds, MarketType
  <2> HIDE DEF u, short, old
  <2>4. new \in MarketType /\ c \in Int /\ c <= new.prepaid
    <3>1. CASE short > 0
      <4>1. m.prepaid + short \in Nat
        BY <2>1, <2>3
      <4>2. new \in MarketType /\ new.prepaid = m.prepaid + short
        BY <3>1, <4>1, PrepaidType
      <4> QED BY <2>1, <2>3, <4>2
    <3>2. CASE ~ (short > 0)
      BY <2>1, <2>3, <3>2
    <3> QED BY <3>1, <3>2
  <2> HIDE DEF new, c
  <2>5. Funds(u)
    BY <2>1, <2>2, <2>4, CreditFunds
  <2> QED BY <2>5 DEF u
<1> QED BY <1>1, <1>2

\* realizeBadDebt uses up no more credit than prepaid bad debt.
LEMMA RealizeFunds ==
    ASSUME NEW s, IsStore(s), Funds(s), NEW p \in Pairs, NEW debt \in Nat,
           CanRealizeBadDebt(s.bank, s.markets[p], debt)
    PROVE  /\ Funds(RealizeBadDebt(s, p, s.markets[p], debt))
           /\ RealizeBadDebt(s, p, s.markets[p], debt).history[p].credit
                <= s.markets[p].prepaid
<1> DEFINE m == s.markets[p]
           u == RealizeBadDebt(s, p, m, debt)
           consumed == MinDec(m.prepaid, debt)
           new == [m EXCEPT !.prepaid = @ - consumed]
           c == s.history[p].credit - consumed
<1>1. /\ m \in MarketType /\ m.prepaid \in Nat
      /\ s.history[p].credit \in Int /\ s.history[p].credit <= m.prepaid
  BY DEF Funds, MarketType
<1>2. /\ u.markets = [s.markets EXCEPT ![p] = new]
      /\ u.bank = Send(s.bank, PerpEF, Vault, debt - consumed)
      /\ u.history = [s.history EXCEPT ![p].credit = c]
      /\ u.positions = s.positions
  BY DEF RealizeBadDebt, IsStore
<1>3. CanSend(s.bank, PerpEF, MaxDec(0, debt - m.prepaid))
  BY DEF CanRealizeBadDebt
<1> HIDE DEF u, m
<1>4. /\ consumed \in Nat /\ m.prepaid - consumed \in Nat
      /\ debt - consumed \in Nat /\ debt - consumed = MaxDec(0, debt - m.prepaid)
  BY <1>1 DEF MinDec, MaxDec
<1>5. new \in MarketType /\ new.prepaid = m.prepaid - consumed
  BY <1>1, <1>4, PrepaidType
<1> HIDE DEF consumed, new
<1>6. c \in Int /\ c <= new.prepaid /\ c <= m.prepaid
  BY <1>1, <1>4, <1>5
<1>7. CanSend(s.bank, PerpEF, debt - consumed)
  BY <1>3, <1>4
<1>8. u.bank \in [Accounts -> Nat]
  BY <1>2, <1>4, <1>7, AccountsAre, SendNat DEF Funds
<1>9. u.history[p].credit = c
  BY <1>2 DEF IsStore, IsHistory
<1> HIDE DEF c
<1>10. Funds(u)
  BY <1>2, <1>5, <1>6, <1>8, CreditFunds
<1> QED BY <1>6, <1>9, <1>10 DEF u, m

\* A store with other balances
LEMMA BankFunds ==
    ASSUME NEW s, IsStore(s), Funds(s), NEW b \in [Accounts -> Nat]
    PROVE  /\ IsStore([s EXCEPT !.bank = b])
           /\ Funds([s EXCEPT !.bank = b])
           /\ [s EXCEPT !.bank = b].history = s.history
           /\ [s EXCEPT !.bank = b].bank = b
<1> DEFINE u == [s EXCEPT !.bank = b]
<1>1. /\ u.markets = s.markets /\ u.amms = s.amms /\ u.positions = s.positions
      /\ u.history = s.history /\ u.bank = b /\ IsRecord(u)
  BY DEF IsStore, IsRecord
<1> HIDE DEF u
<1>2. IsStore(u) /\ Funds(u)
  BY <1>1 DEF IsStore, IsRecord, Funds
<1> QED BY <1>1, <1>2 DEF u

\* The payment between the trader and the vault
LEMMA PayVaultFunds ==
    ASSUME NEW s, IsStore(s), Funds(s), NEW p \in Pairs, NEW t \in Traders,
           NEW amt \in Int, CanPayVault(s.bank, t, amt)
    PROVE  Funds(PayVault(s, p, s.markets[p], t, amt))
<1>1. CASE amt > 0
  <2>1. amt \in Nat /\ CanSend(s.bank, t, amt)
    BY <1>1 DEF CanPayVault
  <2>2. Send(s.bank, t, Vault, amt) \in [Accounts -> Nat]
    BY <2>1, AccountsAre, SendNat DEF Funds
  <2> QED BY <1>1, <2>2, BankFunds DEF PayVault
<1>2. CASE ~ (amt > 0)
  <2>1. -amt \in Int /\ CanWithdraw(s.bank, -amt)
    BY <1>2 DEF CanPayVault
  <2>2. s.markets[p] \in MarketType /\ s.history[p].credit <= s.markets[p].prepaid
    BY DEF Funds
  <2>3. Funds(Withdraw(s, p, s.markets[p], t, -amt))
    BY <2>1, <2>2, WithdrawFunds
  <2> QED BY <1>2, <2>3 DEF PayVault
<1> QED BY <1>1, <1>2

\* Rounding to coins
LEMMA RoundType ==
    ASSUME NEW d \in Int
    PROVE  RoundInt(d) \in Int /\ (d >= 0 => RoundInt(d) \in Nat)
<1>1. CASE d >= 0
  BY <1>1, ChopBounds DEF RoundInt, ChopPrecisionAndRound
<1>2. CASE d < 0
  <2>1. -d \in Nat
    BY <1>2
  <2>2. ChopNat(-d) \in Nat
    BY <2>1, ChopBounds
  <2> QED BY <1>2, <2>2 DEF RoundInt, ChopPrecisionAndRound
<1> QED BY <1>1, <1>2

\* The rates of a market are not negative.
LEMMA RatesAre ==
    ASSUME NEW p \in Pairs
    PROVE  /\ Params[p].exchangeFee \in Nat
           /\ Params[p].efFee \in Nat
           /\ Params[p].liquidationFee \in Nat
BY MarketAssumption, InputAssumption DEF ValidMarket, IsPercent

\* transferFee
LEMMA TransferFeeNat ==
    ASSUME NEW b \in [Accounts -> Nat], NEW p \in Pairs, NEW t \in Traders,
           NEW notional \in Nat, CanTransferFee(b, p, t, notional)
    PROVE  TransferFee(b, p, t, notional) \in [Accounts -> Nat]
<1> DEFINE x == ExchangeFee(p, notional)
           y == EcosystemFee(p, notional)
           c == Send(b, t, FeePool, x)
<1>1. x \in Nat /\ y \in Nat
  <2>1. Mul(Params[p].exchangeFee, notional) \in Nat /\ Mul(Params[p].efFee, notional) \in Nat
    BY RatesAre, MulBounds
  <2> QED BY <2>1, RoundType DEF ExchangeFee, EcosystemFee
<1>2. CanSend(b, t, x + y)
  BY DEF CanTransferFee
<1> HIDE DEF x, y
<1>3. t \in Accounts /\ FeePool \in Accounts \ {t} /\ PerpEF \in Accounts \ {t}
  BY AccountsAre
<1>4. b[t] \in Nat /\ CanSend(b, t, x)
  BY <1>1, <1>2, <1>3 DEF CanSend
<1>5. c \in [Accounts -> Nat] /\ c[t] = b[t] - x
  BY <1>1, <1>3, <1>4, SendNat
<1> HIDE DEF c
<1>6. CanSend(c, t, y)
  BY <1>1, <1>2, <1>4, <1>5 DEF CanSend
<1>7. Send(c, t, PerpEF, y) \in [Accounts -> Nat]
  BY <1>1, <1>3, <1>5, <1>6, SendNat
<1> QED BY <1>7 DEF TransferFee, c, x, y

\* A change of pools, of one position and of what no credit depends on.
Rebooked(s, u, p, t, q) ==
    /\ q \in PositionType
    /\ u.markets = s.markets
    /\ u.bank \in [Accounts -> Nat]
    /\ u.positions = [s.positions EXCEPT ![p][t] = q]
    /\ \A x \in Pairs : u.history[x].credit = s.history[x].credit

\* It keeps the invariant.
LEMMA PositionFunds ==
    ASSUME NEW s, IsStore(s), Funds(s), NEW p \in Pairs, NEW t \in Traders,
           NEW u, NEW q, Rebooked(s, u, p, t, q)
    PROVE  Funds(u)
<1>1. \A x \in Pairs, y \in Traders :
         u.positions[x][y] = IF x = p /\ y = t THEN q ELSE s.positions[x][y]
  BY DEF IsStore, Rebooked
<1> QED BY <1>1 DEF Funds, Rebooked

\* afterPositionUpdate
LEMMA AfterPositionFunds ==
    ASSUME NEW s, StoreOK(s), Funds(s), NEW p \in Pairs, NEW t \in Traders, NEW r,
           IsPayment(r), CanAfterPositionUpdate(s, p, t, r)
    PROVE  Funds(AfterPositionUpdate(s, p, t, r))
<1> DEFINE amt == RoundInt(r.toVault)
           paid == PayVault(s, p, s.markets[p], t, amt)
           q == Kept(paid.positions[p][t], r)
           d == Dropped(r)
           u == AfterPositionUpdate(s, p, t, r)
<1>1. amt \in Int /\ r.notional \in Nat /\ r.pos \in PositionType
  BY RoundType DEF IsPayment
<1>2. CanPayVault(s.bank, t, amt) /\ CanTransferFee(paid.bank, p, t, r.notional)
  BY DEF CanAfterPositionUpdate
<1> HIDE DEF amt
<1>3. Funds(paid) /\ IsStore(paid)
  BY <1>1, <1>2, PayVaultFunds, PayVaultNeutral DEF StoreOK, Neutral
<1>4. /\ u.markets = paid.markets
      /\ u.bank = TransferFee(paid.bank, p, t, r.notional)
      /\ u.positions = [paid.positions EXCEPT ![p][t] = q]
      /\ u.history = [paid.history EXCEPT ![p].dropped = @ + d]
  <2>1. u = [paid EXCEPT !.amms[p] = r.amm,
                         !.positions[p][t] = Kept(@, r),
                         !.bank = TransferFee(@, p, t, r.notional),
                         !.history[p].dropped = @ + Dropped(r)]
    BY Zenon DEF AfterPositionUpdate, amt
  <2> HIDE DEF u, paid
  <2> QED BY <1>3, <2>1 DEF IsStore
<1> HIDE DEF paid, u
<1>5. u.bank \in [Accounts -> Nat]
  BY <1>1, <1>2, <1>3, <1>4, TransferFeeNat DEF Funds
<1>6. q \in PositionType
  BY <1>1, <1>3 DEF Kept, Funds, ZeroPosition, PositionType
<1> HIDE DEF q, d
<1>7. \A x \in Pairs : u.history[x].credit = paid.history[x].credit
  BY <1>3, <1>4 DEF IsStore, IsHistory
<1>8. Rebooked(paid, u, p, t, q)
  BY <1>4, <1>5, <1>6, <1>7, Zenon DEF Rebooked
<1>9. Funds(u)
  BY <1>3, <1>8, PositionFunds
<1> QED BY <1>9 DEF u

\* distributeLiquidateRewards
LEMMA DistributeFunds ==
    ASSUME NEW s, IsStore(s), Funds(s), NEW p \in Pairs, NEW m \in MarketType,
           s.history[p].credit <= m.prepaid, NEW l \in Traders,
           NEW toFund \in Nat, NEW toLiquidator \in Int,
           CanDistribute(s.bank, toFund, toLiquidator)
    PROVE  Funds(DistributeLiquidateRewards(s, p, m, l, toFund, toLiquidator))
<1> DEFINE b == Send(s.bank, Vault, PerpEF, toFund)
           u == [s EXCEPT !.bank = b]
<1>1. CanSend(s.bank, Vault, toFund) /\ CanWithdraw(b, toLiquidator)
  BY DEF CanDistribute
<1>2. b \in [Accounts -> Nat]
  BY <1>1, AccountsAre, SendNat DEF Funds
<1>3. DistributeLiquidateRewards(s, p, m, l, toFund, toLiquidator)
        = Withdraw(u, p, m, l, toLiquidator)
  BY Zenon DEF DistributeLiquidateRewards
<1> HIDE DEF b
<1>4. IsStore(u) /\ Funds(u) /\ u.history = s.history /\ u.bank = b
  BY <1>2, BankFunds
<1> HIDE DEF u
<1>5. Funds(Withdraw(u, p, m, l, toLiquidator))
  BY <1>1, <1>4, WithdrawFunds
<1> QED BY <1>3, <1>5

\* u has the pool and the position of a liquidation and the money of s
SameMoney(s, u) ==
    Funds(u) /\ u.bank = s.bank /\ u.markets = s.markets /\ u.history = s.history
\* The change of pool and position moves no money.
LEMMA LiquidationTradeFunds ==
    ASSUME NEW s, IsStore(s), Funds(s), NEW p \in Pairs, NEW t \in Traders,
           NEW a, NEW q \in PositionType
    PROVE  SameMoney(s, [s EXCEPT !.amms[p] = a, !.positions[p][t] = q])
<1> DEFINE u == [s EXCEPT !.amms[p] = a, !.positions[p][t] = q]
<1>1. /\ u.bank = s.bank /\ u.markets = s.markets /\ u.history = s.history
      /\ u.positions = [s.positions EXCEPT ![p][t] = q]
  BY DEF IsStore
<1> HIDE DEF u
<1>2. Rebooked(s, u, p, t, q)
  BY <1>1 DEF Rebooked, Funds
<1>3. Funds(u)
  BY <1>2, PositionFunds
<1>4. SameMoney(s, u)
  BY <1>1, <1>3 DEF SameMoney
<1> QED BY <1>4 DEF u

\* What a full liquidation shares out
LEMMA FullSharesType ==
    ASSUME NEW p \in Pairs, NEW r, IsPayment(r)
    PROVE  LET fee == QuoInt(Mul(Params[p].liquidationFee, r.notional), 2)
               remaining == Abs(r.toVault)
           IN  /\ RoundInt(fee) \in Nat
               /\ RoundInt(r.badDebt + MaxDec(0, fee - remaining)) \in Nat
               /\ RoundInt(MaxDec(0, remaining - fee)) \in Nat
<1> DEFINE fee == QuoInt(Mul(Params[p].liquidationFee, r.notional), 2)
           remaining == Abs(r.toVault)
           debt == r.badDebt + MaxDec(0, fee - remaining)
           rest == MaxDec(0, remaining - fee)
<1>1. r.notional \in Nat /\ r.badDebt \in Nat /\ remaining \in Nat
  BY DEF IsPayment, Abs
<1>2. fee \in Nat
  <2>1. Mul(Params[p].liquidationFee, r.notional) \in Nat
    BY <1>1, RatesAre, MulBounds
  <2> QED BY <2>1, QuotBounds DEF QuoInt
<1> HIDE DEF fee, remaining
<1>3. debt \in Nat /\ rest \in Nat
  BY <1>1, <1>2 DEF MaxDec
<1> HIDE DEF debt, rest
<1>4. RoundInt(fee) \in Nat /\ RoundInt(debt) \in Nat /\ RoundInt(rest) \in Nat
  BY <1>2, <1>3, RoundType
<1> QED BY <1>4 DEF fee, remaining, debt, rest

\* executeFullLiquidation
LEMMA FullLiquidationFunds ==
    ASSUME NEW s, StoreOK(s), Funds(s), NEW p \in Pairs, NEW t \in Traders, NEW l \in Traders
    PROVE  Funds(FullLiquidation(s, p, t, l).store)
<1> DEFINE m == s.markets[p]
           pos == s.positions[p][t]
           r == ClosePositionEntirely(m, s.amms[p], pos)
           fee == QuoInt(Mul(Params[p].liquidationFee, r.notional), 2)
           remaining == Abs(r.toVault)
           badDebt == RoundInt(r.badDebt + MaxDec(0, fee - remaining))
           toFund == RoundInt(MaxDec(0, remaining - fee))
           closed == [s EXCEPT !.amms[p] = r.amm, !.positions[p][t] = ZeroPosition]
           bad == r.badDebt + MaxDec(0, fee - remaining) > 0
           realized == IF bad THEN RealizeBadDebt(closed, p, m, badDebt) ELSE closed
           u == DistributeLiquidateRewards(realized, p, m, l, toFund, RoundInt(fee))
<1>1. \/ FullLiquidation(s, p, t, l).store = s
      \/ /\ r.ok
         /\ CanRealizeBadDebt(s.bank, m, badDebt)
         /\ CanDistribute(realized.bank, toFund, RoundInt(fee))
         /\ FullLiquidation(s, p, t, l).store = u
  BY DEF FullLiquidation, Outcome
<1>2. ASSUME r.ok, CanRealizeBadDebt(s.bank, m, badDebt),
             CanDistribute(realized.bank, toFund, RoundInt(fee))
      PROVE  Funds(u)
  <2>1. /\ IsStore(s) /\ Pool(s.amms[p]) /\ IsPosition(pos) /\ pos \in PositionType
        /\ m \in MarketType /\ s.history[p].credit <= m.prepaid
    BY DEF StoreOK, IsStore, Funds
  <2>2. IsResponse(r, s.amms[p], pos) /\ r.pos = ZeroPosition /\ IsPayment(r)
    BY <1>2, <2>1, CloseResponse, ClosePayment
  <2>3. RoundInt(fee) \in Nat /\ badDebt \in Nat /\ toFund \in Nat
    <3> HIDE DEF r
    <3> QED BY <2>2, FullSharesType
  <2>4. ZeroPosition \in PositionType
    BY DEF ZeroPosition, PositionType
  <2> HIDE DEF r, badDebt, toFund, fee, remaining
  <2>5. StoreOK(closed)
    BY <2>2, ZeroIsPosition, LiquidationTradeOK
  <2>6. /\ Funds(closed) /\ closed.bank = s.bank /\ closed.markets = s.markets
        /\ closed.history = s.history
    <3>1. SameMoney(s, closed)
      <4> DEFINE a == r.amm
      <4> HIDE DEF a
      <4>1. SameMoney(s, [s EXCEPT !.amms[p] = a, !.positions[p][t] = ZeroPosition])
        BY <2>1, <2>4, LiquidationTradeFunds
      <4> QED BY <4>1 DEF a
    <3> HIDE DEF closed
    <3> QED BY <3>1 DEF SameMoney
  <2> HIDE DEF closed, bad
  <2>7. IsStore(realized) /\ Funds(realized) /\ realized.history[p].credit <= m.prepaid
    <3>1. CASE bad
      <4>1. IsStore(closed) /\ closed.markets[p] = m
        BY <2>5, <2>6 DEF StoreOK
      <4>2. CanRealizeBadDebt(closed.bank, m, badDebt)
        BY <1>2, <2>6
      <4>3. IsStore(RealizeBadDebt(closed, p, m, badDebt))
        BY <4>1, RealizeNeutral DEF Neutral
      <4>4. /\ Funds(RealizeBadDebt(closed, p, m, badDebt))
            /\ RealizeBadDebt(closed, p, m, badDebt).history[p].credit <= m.prepaid
        <5> HIDE DEF m
        <5> QED BY <2>3, <2>6, <4>1, <4>2, RealizeFunds
      <4> QED BY <3>1, <4>3, <4>4
    <3>2. CASE ~ bad
      BY <2>1, <2>5, <2>6, <3>2 DEF StoreOK
    <3> QED BY <3>1, <3>2
  <2> HIDE DEF realized, m
  <2> QED BY <1>2, <2>1, <2>3, <2>7, DistributeFunds
<1> HIDE DEF r, u, realized, m, badDebt, toFund, fee
<1> QED BY <1>1, <1>2

\* executePartialLiquidation
LEMMA PartialLiquidationFunds ==
    ASSUME NEW s, StoreOK(s), Funds(s), NEW p \in Pairs, NEW t \in Traders, NEW l \in Traders
    PROVE  Funds(PartialLiquidation(s, p, t, l).store)
<1> DEFINE m == s.markets[p]
           amm == s.amms[p]
           pos == s.positions[p][t]
           part == PartialSize(p, pos)
           quote == FromQuoteReserveToAsset(amm, GetQuoteReserveAmt(amm, part, ExitDir(pos)))
           r == DecreasePosition(m, amm, pos, quote, 0)
           fee == Mul(quote, Params[p].liquidationFee)
           toLiquidator == RoundInt(QuoInt(fee, 2))
           toFund == RoundInt(fee - QuoInt(fee, 2))
           left == [r.pos EXCEPT !.margin = @ - fee]
           decreased == [s EXCEPT !.amms[p] = r.amm, !.positions[p][t] = left]
           u == DistributeLiquidateRewards(decreased, p, m, l, toFund, toLiquidator)
           can == CanGetQuoteReserveAmt(amm, part, ExitDir(pos))
<1>1. \/ PartialLiquidation(s, p, t, l).store = s
      \/ /\ can /\ r.ok
         /\ CanDistribute(s.bank, toFund, toLiquidator)
         /\ PartialLiquidation(s, p, t, l).store = LetOff(u, p, r.badDebt)
  BY DEF PartialLiquidation, Outcome
<1>2. ASSUME can, r.ok, CanDistribute(s.bank, toFund, toLiquidator)
      PROVE  Funds(u) /\ IsStore(u)
  <2>1. /\ IsStore(s) /\ Pool(amm) /\ IsPosition(pos) /\ pos \in PositionType
        /\ m \in MarketType /\ s.history[p].credit <= m.prepaid
    BY DEF StoreOK, IsStore, Funds
  <2>2. part \in Int
    <3>1. pos.size \in Int /\ Params[p].partial \in Int
      BY <2>1, TypedPosition, InputAssumption
    <3> QED BY <3>1, MulType DEF PartialSize
  <2>3. quote \in Nat
    <3>1. SwapBaseDelta(amm, part, ExitDir(pos)) \in Nat
      <4> HIDE DEF part, amm, pos
      <4> QED BY <1>2, <2>1, <2>2, SwapBaseNat
    <3> QED BY <3>1 DEF SwapBaseDelta
  <2> HIDE DEF quote
  <2>4. IsResponse(r, amm, pos) /\ IsPayment(r)
    BY <1>2, <2>1, <2>3, DecreaseResponse, DecreasePayment
  <2>5. fee \in Nat
    BY <2>3, RatesAre, MulBounds
  <2> HIDE DEF r, fee
  <2>6. QuoInt(fee, 2) \in Nat /\ fee - QuoInt(fee, 2) \in Nat
    <3>1. Quot(fee, 2) \in Nat /\ 2 * Quot(fee, 2) <= fee
      BY <2>5, QuotBounds
    <3> QED BY <2>5, <3>1 DEF QuoInt
  <2>7. toLiquidator \in Nat /\ toFund \in Nat
    BY <2>6, RoundType
  <2>8. left \in PositionType /\ IsPosition(left) /\ left.size = r.pos.size
    BY <2>4, <2>5 DEF IsPayment, PositionType, IsPosition
  <2> HIDE DEF left, toLiquidator, toFund
  <2>9. StoreOK(decreased)
    BY <2>4, <2>8, LiquidationTradeOK
  <2>10. /\ Funds(decreased) /\ decreased.bank = s.bank /\ decreased.history = s.history
    <3>1. SameMoney(s, decreased)
      <4> DEFINE a == r.amm
      <4> HIDE DEF a
      <4>1. SameMoney(s, [s EXCEPT !.amms[p] = a, !.positions[p][t] = left])
        BY <2>1, <2>8, LiquidationTradeFunds
      <4> QED BY <4>1 DEF a
    <3> HIDE DEF decreased
    <3> QED BY <3>1 DEF SameMoney
  <2>11. IsStore(decreased) /\ CanDistribute(decreased.bank, toFund, toLiquidator)
         /\ decreased.history[p].credit <= m.prepaid
    BY <1>2, <2>1, <2>9, <2>10 DEF StoreOK
  <2> HIDE DEF decreased, m
  <2>12. Funds(u)
    BY <2>1, <2>7, <2>10, <2>11, DistributeFunds
  <2> QED BY <2>11, <2>12, DistributeNeutral DEF Neutral
<1> HIDE DEF r, u, can, toFund, toLiquidator
<1>3. ASSUME can, r.ok, CanDistribute(s.bank, toFund, toLiquidator)
      PROVE  Funds(LetOff(u, p, r.badDebt))
  <2> DEFINE v == LetOff(u, p, r.badDebt)
  <2>1. /\ v.bank = u.bank /\ v.markets = u.markets /\ v.positions = u.positions
        /\ \A x \in Pairs : v.history[x].credit = u.history[x].credit
    BY <1>2, <1>3, LetOffNeutral DEF Neutral
  <2> HIDE DEF v
  <2>2. Funds(v)
    BY <1>2, <1>3, <2>1 DEF Funds
  <2> QED BY <2>2 DEF v
<1> QED BY <1>1, <1>3

\* One request of a MultiLiquidate
LEMMA LiquidateOneFunds ==
    ASSUME NEW s, StoreOK(s), Funds(s), NEW p \in Pairs, NEW t \in Traders, NEW l \in Traders
    PROVE  Funds(LiquidateOne(s, p, t, l).store)
<1>1. \/ LiquidateOne(s, p, t, l).store = s
      \/ LiquidateOne(s, p, t, l) = PartialLiquidation(s, p, t, l)
      \/ LiquidateOne(s, p, t, l) = FullLiquidation(s, p, t, l)
  BY DEF LiquidateOne, Outcome
<1> QED BY <1>1, PartialLiquidationFunds, FullLiquidationFunds

\* All of them: what the one before left behind is what the next one needs.
LEMMA OutcomesFunds ==
    ASSUME NEW s, StoreOK(s), Funds(s), NEW l \in Traders, NEW n \in Nat,
           NEW reqs \in [1..n -> [pair : Pairs, trader : Traders]], Len(reqs) = n
    PROVE  Funds(Outcomes(s, reqs, l)[n].store)
<1> DEFINE g == CHOOSE after : IsOutcomes(after, s, reqs, l, n)
<1>1. IsOutcomes(g, s, reqs, l, n)
  BY OutcomesExist, Zenon
<1>2. Outcomes(s, reqs, l) = g
  BY Zenon DEF Outcomes, IsOutcomes
<1> HIDE DEF g
<1> DEFINE Bad == {i \in 0..n : ~ (StoreOK(g[i].store) /\ Funds(g[i].store))}
<1>3. ASSUME Bad # {} PROVE FALSE
  <2>1. PICK m \in Bad : \A k \in Bad : m <= k
    <3>1. Bad \subseteq Nat
      OBVIOUS
    <3> HIDE DEF Bad
    <3> QED BY <1>3, <3>1, LeastNatural
  <2>2. m # 0
    BY <1>1 DEF IsOutcomes, Outcome
  <2>3. StoreOK(g[m - 1].store) /\ Funds(g[m - 1].store)
    BY <2>1, <2>2
  <2>4. g[m] = LiquidateOne(g[m - 1].store, reqs[m].pair, reqs[m].trader, l)
    BY <1>1, <2>2 DEF IsOutcomes
  <2>5. reqs[m].pair \in Pairs /\ reqs[m].trader \in Traders
    BY <2>2
  <2> QED BY <2>3, <2>4, <2>5, LiquidateOneOK, LiquidateOneFunds
<1> QED BY <1>2, <1>3

-----------------------------------------------------------------------------
(* The specification again: types, balances and credits. *)

\* The bounds of a behaviour
Bounded == now \in 0..MaxTime /\ txs \in 0..MaxTxs

\* The inductive invariant for types and credits.
FInv == IInv /\ Funds(Store) /\ Bounded

\* What it says of the variables
LEMMA FInvFacts ==
    ASSUME FInv
    PROVE  /\ StoreOK(Store) /\ Funds(Store) /\ IsStore(Store)
           /\ Store.markets = markets /\ Store.amms = amms /\ Store.positions = positions
           /\ Store.bank = bank /\ Store.history = history
           /\ bank \in [Accounts -> Nat]
           /\ markets \in [Pairs -> MarketType]
           /\ \A p \in Pairs :
                 /\ Pool(amms[p]) /\ IsHistory(history[p])
                 /\ history[p].credit \in Int /\ history[p].credit <= markets[p].prepaid
                 /\ \A t \in Traders : positions[p][t] \in PositionType
<1>1. /\ Store.markets = markets /\ Store.amms = amms /\ Store.positions = positions
      /\ Store.bank = bank /\ Store.history = history
  BY DEF Store
<1>2. StoreOK(Store) /\ Funds(Store) /\ IsStore(Store)
  BY DEF FInv, IInv, StoreOK
<1> QED BY <1>1, <1>2 DEF IsStore, Funds

\* The store after a step, one collection at a time
LEMMA FundsAfter ==
    ASSUME markets' \in [Pairs -> MarketType], bank' \in [Accounts -> Nat],
           \A p \in Pairs : /\ history'[p].credit \in Int
                            /\ history'[p].credit <= markets'[p].prepaid
                            /\ \A t \in Traders : positions'[p][t] \in PositionType
    PROVE  Funds(Store')
BY DEF Store, Funds

\* Committing a store commits its money.
LEMMA CommitFunds ==
    ASSUME NEW s, Funds(s), Commit(s)
    PROVE  Funds(Store')
<1>1. markets' = s.markets /\ bank' = s.bank /\ history' = s.history /\ positions' = s.positions
  BY DEF Commit
<1>2. /\ s.markets \in [Pairs -> MarketType] /\ s.bank \in [Accounts -> Nat]
      /\ \A p \in Pairs : /\ s.history[p].credit \in Int
                          /\ s.history[p].credit <= s.markets[p].prepaid
                          /\ \A t \in Traders : s.positions[p][t] \in PositionType
  BY DEF Funds
<1> QED BY <1>1, <1>2, FundsAfter

\* Only balances change.
LEMMA BankAfter ==
    ASSUME FInv, UNCHANGED <<markets, positions, history>>, bank' \in [Accounts -> Nat]
    PROVE  Funds(Store')
BY FInvFacts, FundsAfter

\* The genesis state
LEMMA InitFunds == Init => FInv
<1> SUFFICES ASSUME Init PROVE Funds(Store) /\ Bounded
  BY InitOK DEF FInv
<1>1. Bounded
  BY BoundAssumption DEF Bounded, Init
<1>2. Store.markets \in [Pairs -> MarketType] /\ Store.bank \in [Accounts -> Nat]
  BY BankAssumption DEF Init, Store, MarketType
<1>3. ASSUME NEW p \in Pairs
      PROVE  Store.history[p].credit = 0 /\ Store.markets[p].prepaid = 0
  BY DEF Init, Store, NoHistory
<1>4. ASSUME NEW p \in Pairs, NEW t \in Traders PROVE Store.positions[p][t] \in PositionType
  BY DEF Init, Store, ZeroPosition, PositionType
<1> QED BY <1>1, <1>2, <1>3, <1>4 DEF Funds

\* Opening and closing
LEMMA OpenPositionFunds ==
    ASSUME FInv, NEW t \in Traders, NEW p \in Pairs, NEW dir,
           NEW quote \in Nat, NEW lev \in Nat \ {0}, NEW limit,
           OpenPosition(t, p, dir, quote, lev, limit)
    PROVE  Funds(Store')
<1> DEFINE r == OpenResponse(markets[p], amms[p], positions[p][t], dir, quote, lev, limit)
<1>1. /\ r.ok /\ CanAfterPositionUpdate(Store, p, t, r)
      /\ Commit(AfterPositionUpdate(Store, p, t, r))
  BY DEF OpenPosition
<1>2. IsPayment(r)
  BY <1>1, FInvFacts, OpenPayment
<1> HIDE DEF r
<1>3. Funds(AfterPositionUpdate(Store, p, t, r))
  BY <1>1, <1>2, FInvFacts, AfterPositionFunds
<1> QED BY <1>1, <1>3, CommitFunds

\* ClosePosition pays through AfterPositionUpdate.
LEMMA ClosePositionFunds ==
    ASSUME FInv, NEW t \in Traders, NEW p \in Pairs, ClosePosition(t, p)
    PROVE  Funds(Store')
<1> DEFINE r == ClosePositionEntirely(markets[p], amms[p], positions[p][t])
<1>1. /\ r.ok /\ CanAfterPositionUpdate(Store, p, t, r)
      /\ Commit(AfterPositionUpdate(Store, p, t, r))
  BY DEF ClosePosition
<1>2. IsPayment(r)
  BY <1>1, FInvFacts, ClosePayment
<1> HIDE DEF r
<1>3. Funds(AfterPositionUpdate(Store, p, t, r))
  BY <1>1, <1>2, FInvFacts, AfterPositionFunds
<1> QED BY <1>1, <1>3, CommitFunds

\* A table of positions of the type, and one in which t's position has another margin
IsTyped(ps) == \A x \in Pairs, y \in Traders : ps[x][y] \in PositionType
Repriced(ps, qs, p, t, margin, cpf) ==
    qs = [ps EXCEPT ![p][t].margin = margin, ![p][t].cpf = cpf]
Settled(pos, q, margin, cpf) == q = [pos EXCEPT !.margin = margin, !.cpf = cpf]
\* A change of margin keeps the types and rewrites one position.
LEMMA MarginType ==
    ASSUME NEW ps, IsBook(ps), IsTyped(ps), NEW p \in Pairs, NEW t \in Traders,
           NEW margin \in Int, NEW cpf \in Int, NEW qs, Repriced(ps, qs, p, t, margin, cpf)
    PROVE  IsTyped(qs) /\ Settled(ps[p][t], qs[p][t], margin, cpf)
<1> DEFINE new == [ps[p][t] EXCEPT !.margin = margin, !.cpf = cpf]
<1>1. new \in PositionType
  BY DEF PositionType, IsTyped
<1>2. \A x \in Pairs, y \in Traders : qs[x][y] = IF x = p /\ y = t THEN new ELSE ps[x][y]
  BY DEF IsBook, Repriced
<1>3. IsTyped(qs) /\ qs[p][t] = new
  <2> HIDE DEF new
  <2> QED BY <1>1, <1>2 DEF IsTyped
<1> QED BY <1>3 DEF new, Settled

\* AddMargin
LEMMA AddMarginFunds ==
    ASSUME FInv, NEW t \in Traders, NEW p \in Pairs, NEW amt \in Nat, AddMargin(t, p, amt)
    PROVE  Funds(Store')
<1> DEFINE pos == positions[p][t]
           cpf == markets[p].cpf
           margin == pos.margin - FundingPayment(pos, cpf) + ToDec(amt)
<1>1. /\ CanSend(bank, t, amt) /\ bank' = Send(bank, t, Vault, amt)
      /\ positions' = [positions EXCEPT ![p][t].margin = margin, ![p][t].cpf = cpf]
      /\ markets' = markets /\ history' = history
  BY DEF AddMargin
<1>2. bank' \in [Accounts -> Nat]
  BY <1>1, AccountsAre, FInvFacts, SendNat
<1>3. pos \in PositionType /\ cpf \in Int /\ ToDec(amt) \in Int
  BY FInvFacts, ScaleAssumption DEF MarketType, ToDec
<1>4. margin \in Int
  <2> HIDE DEF pos, cpf
  <2>1. FundingPayment(pos, cpf) \in Int /\ pos.margin \in Int
    BY <1>3, PnlType, TypedPosition
  <2> QED BY <1>3, <2>1
<1>5. IsBook(positions) /\ IsTyped(positions) /\ Repriced(positions, positions', p, t, margin, cpf)
  BY <1>1, FInvFacts DEF IsStore, IsBook, IsTyped, Repriced
<1> HIDE DEF margin, cpf
<1>6. \A x \in Pairs, y \in Traders : positions'[x][y] \in PositionType
  BY <1>3, <1>4, <1>5, MarginType DEF IsTyped
<1> QED BY <1>1, <1>2, <1>6, FInvFacts, FundsAfter

\* RemoveMargin: the store it commits
Removed(s, w, p, t, margin, cpf) ==
    /\ s.markets = w.markets
    /\ s.bank = w.bank
    /\ s.history = w.history
    /\ s.amms = w.amms
    /\ Repriced(w.positions, s.positions, p, t, margin, cpf)
\* RemoveMargin is a Withdraw and a change of one margin.
LEMMA RemoveMarginIs ==
    ASSUME FInv, NEW t \in Traders, NEW p \in Pairs, NEW amt \in Nat, RemoveMargin(t, p, amt)
    PROVE  LET pos == positions[p][t]
               cpf == markets[p].cpf
           IN  /\ Funds(Withdraw(Store, p, markets[p], t, amt))
               /\ Neutral(Store, Withdraw(Store, p, markets[p], t, amt))
               /\ pos.margin - FundingPayment(pos, cpf) - ToDec(amt) \in Int
               /\ Removed(StoreAfter, Withdraw(Store, p, markets[p], t, amt), p, t,
                          pos.margin - FundingPayment(pos, cpf) - ToDec(amt), cpf)
<1> DEFINE pos == positions[p][t]
           cpf == markets[p].cpf
           margin == pos.margin - FundingPayment(pos, cpf) - ToDec(amt)
           w == Withdraw(Store, p, markets[p], t, amt)
<1>1. CanWithdraw(bank, amt)
      /\ Commit([w EXCEPT !.positions[p][t].margin = margin, !.positions[p][t].cpf = cpf])
  BY DEF RemoveMargin
<1>2. pos \in PositionType /\ cpf \in Int /\ ToDec(amt) \in Int
  BY FInvFacts, ScaleAssumption DEF MarketType, ToDec
<1>3. margin \in Int
  <2> HIDE DEF pos, cpf
  <2>1. FundingPayment(pos, cpf) \in Int /\ pos.margin \in Int
    BY <1>2, PnlType, TypedPosition
  <2> QED BY <1>2, <2>1
<1>4. Neutral(Store, w) /\ IsStore(w)
  BY FInvFacts, WithdrawNeutral DEF Neutral
<1>5. Funds(w)
  <2> DEFINE m == markets[p]
  <2>1. m \in MarketType /\ Store.history[p].credit <= m.prepaid /\ CanWithdraw(Store.bank, amt)
        /\ amt \in Int
    BY <1>1, FInvFacts
  <2> HIDE DEF m
  <2>2. Funds(Withdraw(Store, p, m, t, amt))
    BY <2>1, FInvFacts, WithdrawFunds
  <2> QED BY <2>2 DEF m
<1> HIDE DEF w, margin, cpf
<1>6. Removed(StoreAfter, w, p, t, margin, cpf)
  BY <1>1, <1>4 DEF Commit, IsStore, Removed, Repriced, StoreAfter
<1> QED BY <1>3, <1>4, <1>5, <1>6 DEF w, margin, cpf

\* RemoveMargin withdraws, then rewrites one position.
LEMMA RemoveMarginFunds ==
    ASSUME FInv, NEW t \in Traders, NEW p \in Pairs, NEW amt \in Nat, RemoveMargin(t, p, amt)
    PROVE  Funds(Store')
<1> DEFINE pos == positions[p][t]
           cpf == markets[p].cpf
           margin == pos.margin - FundingPayment(pos, cpf) - ToDec(amt)
           w == Withdraw(Store, p, markets[p], t, amt)
<1>1. Funds(w) /\ IsStore(w) /\ margin \in Int /\ Removed(StoreAfter, w, p, t, margin, cpf)
  BY RemoveMarginIs DEF Neutral
<1>2. cpf \in Int
  BY FInvFacts DEF MarketType
<1> HIDE DEF w, margin, cpf
<1>3. IsBook(w.positions) /\ IsTyped(w.positions)
  BY <1>1 DEF IsStore, IsBook, IsTyped, Funds
<1>4. Repriced(w.positions, positions', p, t, margin, cpf)
  BY <1>1 DEF Removed, StoreAfter
<1>5. IsTyped(positions')
  BY <1>1, <1>2, <1>3, <1>4, MarginType
<1>6. markets' = w.markets /\ bank' = w.bank /\ history' = w.history
  BY <1>1 DEF Removed, StoreAfter
<1>7. /\ w.markets \in [Pairs -> MarketType] /\ w.bank \in [Accounts -> Nat]
      /\ \A x \in Pairs : /\ w.history[x].credit \in Int
                          /\ w.history[x].credit <= w.markets[x].prepaid
  BY <1>1 DEF Funds
<1> QED BY <1>5, <1>6, <1>7, FundsAfter DEF IsTyped

\* Liquidation
LEMMA MultiLiquidateFunds ==
    ASSUME FInv, NEW l \in Traders, NEW reqs \in Requests, MultiLiquidate(l, reqs)
    PROVE  Funds(Store')
<1>1. PICK n \in 1..MaxRequests : reqs \in [1..n -> [pair : Pairs, trader : Traders]]
  BY DEF Requests
<1>2. n \in Nat /\ Len(reqs) = n
  BY <1>1
<1>3. Funds(Outcomes(Store, reqs, l)[n].store)
  BY <1>1, <1>2, FInvFacts, OutcomesFunds
<1>4. Commit(Outcomes(Store, reqs, l)[n].store)
  BY <1>2 DEF MultiLiquidate
<1> QED BY <1>3, <1>4, CommitFunds

\* Rounding up
LEMMA CeilType ==
    ASSUME NEW d \in Int
    PROVE  CeilInt(d) \in Int
<1>1. Quot(d, Scale) \in Int
  BY QuotType, ScaleAssumption
<1> QED BY <1>1 DEF CeilInt

\* The value of the net position of all traders
LEMMA MarketValueType ==
    ASSUME NEW amm, Pool(amm), CanValueBias(amm)
    PROVE  BiasInQuoteReserve(amm) \in Int /\ GetMarketValue(amm) \in Int
<1> DEFINE v == GetQuoteReserveAmt(amm, Abs(Bias(amm)), BiasExit(amm))
<1>1. Bias(amm) \in Int /\ amm.peg \in Int
  BY DEF Pool, AmmType, Bias
<1>2. Abs(Bias(amm)) \in Int
  BY <1>1 DEF Abs
<1>3. v \in Int
  BY <1>2, QuoteReserveType DEF CanValueBias
<1>4. BiasInQuoteReserve(amm) = IF Bias(amm) < 0 THEN -v ELSE v
  BY Zenon DEF BiasInQuoteReserve
<1> HIDE DEF v
<1>5. BiasInQuoteReserve(amm) \in Int
  BY <1>3, <1>4
<1> QED BY <1>1, <1>5, MulType DEF GetMarketValue, FromQuoteReserveToAsset

\* handleMarketUpdateCost
LEMMA MarketUpdateFunds ==
    ASSUME FInv, NEW cost \in Int, CanPayMarketUpdate(cost), PayMarketUpdate(cost),
           UNCHANGED <<markets, positions, history>>
    PROVE  Funds(Store')
<1>1. CASE cost > 0
  <2>1. bank' = Send(bank, PerpEF, Vault, cost) /\ CanSend(bank, PerpEF, cost) /\ cost \in Nat
    BY <1>1 DEF CanPayMarketUpdate, PayMarketUpdate
  <2>2. bank' \in [Accounts -> Nat]
    BY <2>1, AccountsAre, FInvFacts, SendNat
  <2> QED BY <2>2, BankAfter
<1>2. CASE ~ (cost > 0) /\ CanSend(bank, Vault, -cost)
  <2>1. bank' = Send(bank, Vault, PerpEF, -cost) /\ -cost \in Nat
    BY <1>2 DEF PayMarketUpdate
  <2>2. bank' \in [Accounts -> Nat]
    BY <1>2, <2>1, AccountsAre, FInvFacts, SendNat
  <2> QED BY <2>2, BankAfter
<1>3. CASE ~ (cost > 0) /\ ~ CanSend(bank, Vault, -cost)
  <2>1. bank' = bank
    BY <1>3 DEF PayMarketUpdate
  <2> QED BY <2>1, BankAfter, FInvFacts
<1> QED BY <1>1, <1>2, <1>3

\* Repegging
LEMMA EditPriceMultiplierFunds ==
    ASSUME FInv, NEW p \in Pairs, NEW peg \in Int, EditPriceMultiplier(p, peg)
    PROVE  Funds(Store')
<1> DEFINE amm == amms[p]
           cost == CalcRepegCost(amm, peg)
<1>1. /\ CanValueBias(amm) /\ CanPayMarketUpdate(cost) /\ PayMarketUpdate(cost)
      /\ UNCHANGED <<markets, positions, history>>
  BY DEF EditPriceMultiplier, CanRepeg
<1>2. Pool(amm)
  BY FInvFacts
<1> HIDE DEF amm
<1>3. BiasInQuoteReserve(amm) \in Int /\ peg - amm.peg \in Int
  BY <1>1, <1>2, MarketValueType DEF Pool, AmmType
<1>4. cost \in Int
  BY <1>3, MulType, CeilType DEF CalcRepegCost
<1> HIDE DEF cost
<1> QED BY <1>1, <1>4, MarketUpdateFunds

\* A new depth is paid for between fund and vault (EditSwapInvariant).
LEMMA EditSwapInvariantFunds ==
    ASSUME FInv, NEW p \in Pairs, NEW k \in Int, EditSwapInvariant(p, k)
    PROVE  Funds(Store')
<1> DEFINE amm == amms[p]
           a == UpdateSwapInvariant(amm, k)
           cost == CalcUpdateSwapInvariantCost(amm, k)
<1>1. /\ CanUpdateSwapInvariant(amm, k) /\ CanPayMarketUpdate(cost) /\ PayMarketUpdate(cost)
      /\ UNCHANGED <<markets, positions, history>>
  BY DEF EditSwapInvariant
<1>2. Pool(amm)
  BY FInvFacts
<1> HIDE DEF amm
<1>3. CanValueBias(amm) /\ CanValueBias(a)
  BY <1>1 DEF CanUpdateSwapInvariant
<1>4. Pool(a)
  BY <1>1, <1>2, UpdatedPool
<1> HIDE DEF a
<1>5. GetMarketValue(a) - GetMarketValue(amm) \in Int
  BY <1>2, <1>3, <1>4, MarketValueType
<1>6. cost = CeilInt(GetMarketValue(a) - GetMarketValue(amm))
  BY Zenon DEF CalcUpdateSwapInvariantCost, a
<1>7. cost \in Int
  BY <1>5, <1>6, CeilType
<1> HIDE DEF cost
<1> QED BY <1>1, <1>7, MarketUpdateFunds

\* Funding
LEMMA AfterEpochEndFunds ==
    ASSUME FInv, NEW id \in DOMAIN IntervalsPerDay, NEW index \in [Pairs -> IndexPrices],
           AfterEpochEnd(id, index)
    PROVE  Funds(Store')
<1>1. ASSUME NEW p \in Funded(id, index)
      PROVE  Premium(p, id, index) \in Int
  <2>1. /\ p \in Pairs /\ CanTwapSpot(Snapshots[p], now, Params[p].lookback)
        /\ now \in Int /\ Params[p].lookback \in Nat /\ index[p] \in Int
        /\ IntervalsPerDay[id] \in Int \ {0}
    <3>1. p \in Pairs /\ CanTwapSpot(Snapshots[p], now, Params[p].lookback)
      BY Zenon DEF Funded, Reached
    <3>2. now \in Int
      BY BoundAssumption DEF FInv, Bounded
    <3>3. Params[p].lookback \in Nat /\ index[p] \in Int
      BY <3>1, InputAssumption
    <3>4. IntervalsPerDay[id] \in Nat \ {0}
      BY InputAssumption
    <3> QED BY <3>1, <3>2, <3>3, <3>4
  <2>2. MarkTwap(p) \in Int
    BY <2>1, SnapshotsAre, TwapSpotType DEF MarkTwap
  <2>3. MarkTwap(p) - index[p] \in Int
    BY <2>1, <2>2
  <2> QED BY <2>1, <2>3, QuotType DEF Premium, QuoInt
<1>2. ASSUME NEW p \in Pairs
      PROVE  markets'[p] \in MarketType /\ markets'[p].prepaid = markets[p].prepaid
  <2>1. markets[p] \in MarketType /\ markets[p].cpf \in Int
    BY FInvFacts DEF MarketType
  <2>2. CASE p \in Funded(id, index)
    <3>1. markets'[p] = [markets[p] EXCEPT !.cpf = @ + Premium(p, id, index)]
      BY <2>2 DEF AfterEpochEnd
    <3>2. markets[p].cpf + Premium(p, id, index) \in Int
      BY <1>1, <2>1, <2>2
    <3> QED BY <2>1, <3>1, <3>2 DEF MarketType
  <2>3. CASE p \notin Funded(id, index)
    BY <2>1, <2>3 DEF AfterEpochEnd
  <2> QED BY <2>2, <2>3
<1>3. DOMAIN markets' = Pairs /\ markets' = [p \in Pairs |-> markets'[p]]
  BY DEF AfterEpochEnd
<1>4. markets' \in [Pairs -> MarketType]
  BY <1>2, <1>3
<1>5. \A p \in Pairs : history'[p].credit = history[p].credit
  BY FInvFacts DEF AfterEpochEnd, IsHistory
<1>6. bank' = bank /\ positions' = positions
  BY DEF AfterEpochEnd
<1> QED BY <1>2, <1>4, <1>5, <1>6, FInvFacts, FundsAfter

\* Opening and closing a market
LEMMA ChangeMarketEnabledFunds ==
    ASSUME FInv, NEW p \in Pairs, NEW enabled \in BOOLEAN,
           ChangeMarketEnabledParameter(p, enabled)
    PROVE  Funds(Store')
<1>1. /\ markets' = [markets EXCEPT ![p].enabled = enabled]
      /\ bank' = bank /\ positions' = positions /\ history' = history
  BY DEF ChangeMarketEnabledParameter
<1>2. markets \in [Pairs -> MarketType]
  BY FInvFacts
<1>3. \A x \in Pairs : [markets[x] EXCEPT !.enabled = enabled] \in MarketType
  BY <1>2 DEF MarketType
<1>4. markets' \in [Pairs -> MarketType]
  BY <1>1, <1>2, <1>3
<1>5. \A x \in Pairs : markets'[x].prepaid = markets[x].prepaid
  BY <1>1, <1>2 DEF MarketType
<1> QED BY <1>1, <1>4, <1>5, FInvFacts, FundsAfter

\* Every step keeps types, balances and credits.
LEMMA NextFunds == FInv /\ [Next]_vars => FInv'
<1> SUFFICES ASSUME FInv, [Next]_vars PROVE Funds(Store') /\ Bounded'
  BY NextOK DEF FInv
<1>1. Bounded'
  <2>1. ASSUME Step, UNCHANGED now PROVE Bounded'
    BY <2>1, BoundAssumption DEF Step, FInv, Bounded
  <2>2. CASE NextBlock
    BY <2>2, BoundAssumption DEF NextBlock, FInv, Bounded
  <2>3. CASE UNCHANGED vars
    BY <2>3 DEF vars, FInv, Bounded
  <2>4. CASE Next /\ ~ NextBlock
    <3>1. ASSUME NEW t, NEW p, NEW dir, NEW quote, NEW lev, NEW limit, NEW amt
          PROVE  /\ OpenPosition(t, p, dir, quote, lev, limit) => Step /\ UNCHANGED now
                 /\ ClosePosition(t, p) => Step /\ UNCHANGED now
                 /\ AddMargin(t, p, amt) => Step /\ UNCHANGED now
                 /\ RemoveMargin(t, p, amt) => Step /\ UNCHANGED now
                 /\ DonateToEcosystemFund(t, amt) => Step /\ UNCHANGED now
      BY Zenon DEF OpenPosition, ClosePosition, AddMargin, RemoveMargin, DonateToEcosystemFund
    <3>2. ASSUME NEW l, NEW reqs, NEW id, NEW index
          PROVE  /\ MultiLiquidate(l, reqs) => Step /\ UNCHANGED now
                 /\ AfterEpochEnd(id, index) => Step /\ UNCHANGED now
      BY Zenon DEF MultiLiquidate, AfterEpochEnd
    <3>3. ASSUME NEW p, NEW x
          PROVE  /\ EditPriceMultiplier(p, x) => Step /\ UNCHANGED now
                 /\ EditSwapInvariant(p, x) => Step /\ UNCHANGED now
                 /\ ChangeMarketEnabledParameter(p, x) => Step /\ UNCHANGED now
      BY Zenon DEF EditPriceMultiplier, EditSwapInvariant, ChangeMarketEnabledParameter
    <3>4. Step /\ UNCHANGED now
      BY <2>4, <3>1, <3>2, <3>3 DEF Next
    <3> QED BY <2>1, <3>4
  <2> QED BY <2>2, <2>3, <2>4
<1>2. ASSUME NEW t \in Traders, NEW p \in Pairs, NEW dir \in Directions,
             NEW quote \in QuoteAmounts, NEW lev \in Leverages, NEW limit \in BaseLimits,
             OpenPosition(t, p, dir, quote, lev, limit)
      PROVE  Funds(Store')
  <2>1. quote \in Nat /\ lev \in Nat \ {0}
    BY InputAssumption
  <2> QED BY <1>2, <2>1, OpenPositionFunds
<1>3. ASSUME NEW t \in Traders, NEW p \in Pairs, ClosePosition(t, p) PROVE Funds(Store')
  BY <1>3, ClosePositionFunds
<1>4. ASSUME NEW t \in Traders, NEW p \in Pairs, NEW amt \in Margins, AddMargin(t, p, amt)
      PROVE  Funds(Store')
  BY <1>4, InputAssumption, AddMarginFunds
<1>5. ASSUME NEW t \in Traders, NEW p \in Pairs, NEW amt \in Margins, RemoveMargin(t, p, amt)
      PROVE  Funds(Store')
  BY <1>5, InputAssumption, RemoveMarginFunds
<1>6. ASSUME NEW l \in Liquidators, NEW reqs \in Requests, MultiLiquidate(l, reqs)
      PROVE  Funds(Store')
  BY <1>6, InputAssumption, MultiLiquidateFunds
<1>7. ASSUME NEW t \in Traders, NEW amt \in Donations, DonateToEcosystemFund(t, amt)
      PROVE  Funds(Store')
  <2>1. /\ CanSend(bank, t, amt) /\ bank' = Send(bank, t, PerpEF, amt) /\ amt \in Nat
        /\ UNCHANGED <<markets, positions, history>>
    BY <1>7, InputAssumption DEF DonateToEcosystemFund
  <2>2. bank' \in [Accounts -> Nat]
    BY <2>1, AccountsAre, FInvFacts, SendNat
  <2> QED BY <2>1, <2>2, BankAfter
<1>8. ASSUME NEW p \in Pairs, NEW peg \in Pegs, EditPriceMultiplier(p, peg)
      PROVE  Funds(Store')
  BY <1>8, InputAssumption, EditPriceMultiplierFunds
<1>9. ASSUME NEW p \in Pairs, NEW k \in SwapInvariants, EditSwapInvariant(p, k)
      PROVE  Funds(Store')
  BY <1>9, InputAssumption, EditSwapInvariantFunds
<1>10. ASSUME NEW p \in Pairs, NEW enabled \in Toggles,
              ChangeMarketEnabledParameter(p, enabled)
       PROVE  Funds(Store')
  BY <1>10, InputAssumption, ChangeMarketEnabledFunds
<1>11. ASSUME NEW id \in DOMAIN IntervalsPerDay, NEW index \in [Pairs -> IndexPrices],
              AfterEpochEnd(id, index)
       PROVE  Funds(Store')
  BY <1>11, AfterEpochEndFunds
<1>12. ASSUME NextBlock \/ UNCHANGED vars PROVE Funds(Store')
  BY <1>12, BankAfter, FInvFacts DEF NextBlock, vars
<1>13. Funds(Store')
  BY <1>2, <1>3, <1>4, <1>5, <1>6, <1>7, <1>8, <1>9, <1>10, <1>11, <1>12 DEF Next
<1> QED BY <1>1, <1>13

\* The values of every collection stay in their types and no account of the bank
\* is overdrawn: what the handlers check before a payment (CanSend, CanWithdraw,
\* CanTransferFee, CanDistribute) is enough for all the payments they make, the two
\* fees of a trade and the two shares of a liquidation included.
THEOREM TypesAndBalances == Spec => []TypeOK
<1>1. FInv => TypeOK
  <2> SUFFICES ASSUME FInv PROVE TypeOK
    OBVIOUS
  <2>1. ASSUME NEW p \in Pairs
        PROVE  /\ markets[p].enabled \in BOOLEAN
               /\ markets[p].cpf \in Int
               /\ markets[p].prepaid \in Nat
               /\ amms[p] \in AmmType
               /\ \A t \in Traders : positions[p][t] \in PositionType
    BY FInvFacts DEF MarketType, Pool
  <2>2. \A a \in Accounts : bank[a] \in Nat
    BY FInvFacts
  <2> QED BY <2>1, <2>2 DEF TypeOK, FInv, Bounded
<1> QED BY <1>1, InitFunds, NextFunds, PTL DEF Spec

\* The prepaid bad debt of a market is never less than the coins the fund advanced
\* for it and has not got back, also when a liquidation realises bad debt with one
\* copy of the market and pays the liquidator with another.
THEOREM PrepaidAlwaysCoversCredit == Spec => []PrepaidCoversCredit
<1>1. FInv => PrepaidCoversCredit
  <2> SUFFICES ASSUME FInv, NEW p \in Pairs PROVE markets[p].prepaid >= history[p].credit
    BY DEF PrepaidCoversCredit
  <2>1. history[p].credit \in Int /\ history[p].credit <= markets[p].prepaid
        /\ markets[p].prepaid \in Nat
    BY FInvFacts DEF MarketType
  <2> QED BY <2>1
<1> QED BY <1>1, InitFunds, NextFunds, PTL DEF Spec

-----------------------------------------------------------------------------
(* RemoveMargin. *)

\* Withdraw leaves the premium fraction of the market alone.
LEMMA WithdrawPremium ==
    ASSUME NEW s, IsStore(s), Funds(s), NEW p \in Pairs, NEW receiver, NEW amt
    PROVE  Withdraw(s, p, s.markets[p], receiver, amt).markets[p].cpf = s.markets[p].cpf
<1> DEFINE u == Withdraw(s, p, s.markets[p], receiver, amt)
           short == Shortage(s.bank, amt)
           old == s.markets[p]
           new == IF short > 0 THEN [old EXCEPT !.prepaid = @ + short] ELSE old
<1>1. CASE amt <= 0
  BY <1>1 DEF Withdraw
<1>2. CASE ~ (amt <= 0)
  <2>1. u.markets = [s.markets EXCEPT ![p] = new]
    BY <1>2 DEF Withdraw, IsStore
  <2>2. s.markets \in [Pairs -> MarketType] /\ old \in MarketType
    BY DEF Funds
  <2> HIDE DEF old, short
  <2>3. new.cpf = old.cpf
    BY <2>2 DEF MarketType
  <2> HIDE DEF new, u
  <2>4. u.markets[p] = new
    BY <2>1, <2>2
  <2>5. u.markets[p].cpf = old.cpf
    BY <2>3, <2>4
  <2> QED BY <2>5 DEF u, old
<1> QED BY <1>1, <1>2

\* A position that has settled its funding owes none.
LEMMA SettledFunding ==
    ASSUME NEW size \in Int
    PROVE  Mul(0, size) = 0
<1>1. ChopNat(0 * Scale) = 0
  BY ChopExact
<1>2. 0 * Scale = 0 /\ 0 * size = 0
  BY ScaleAssumption
<1>3. ChopNat(0) = 0
  BY <1>1, <1>2
<1> QED BY <1>2, <1>3 DEF Mul, ChopPrecisionAndRound

\* A long that has paid its funding and lost at most its free collateral is solvent.
LEMMA SolventLong ==
    ASSUME NEW m \in MarketType, NEW amm, Pool(amm), NEW pos \in PositionType, pos.size > 0,
           pos.cpf = m.cpf, NEW worst \in Int, worst <= PositionNotionalSpot(amm, pos),
           pos.margin + MinDec(0, worst - pos.openNotional) >= 0,
           ClosePositionEntirely(m, amm, pos).ok
    PROVE  ~ (ClosePositionEntirely(m, amm, pos).badDebt > 0)
<1> DEFINE r == ClosePositionEntirely(m, amm, pos)
           spot == PositionNotionalSpot(amm, pos)
           funding == FundingPayment(pos, m.cpf)
           margin == pos.margin + UnrealizedPnl(pos, spot) - funding
<1>1. CanNotionalSpot(amm, pos)
  BY DEF ClosePositionEntirely, Failed
<1>2. spot \in Nat
  BY <1>1, SpotNat
<1>3. /\ pos.margin \in Int /\ pos.openNotional \in Int /\ pos.size \in Int /\ pos.cpf \in Int
  BY TypedPosition
<1>4. funding = 0
  <2>1. m.cpf - pos.cpf = 0
    BY <1>3
  <2> QED BY <1>3, <2>1, SettledFunding DEF FundingPayment
<1>5. r.badDebt = MaxDec(0, -margin)
  BY DEF ClosePositionEntirely, Failed
<1>6. UnrealizedPnl(pos, spot) = spot - pos.openNotional
  BY DEF UnrealizedPnl
<1> HIDE DEF r, spot, funding
<1>7. margin \in Int /\ margin >= 0
  <2>1. margin = pos.margin + (spot - pos.openNotional)
    BY <1>2, <1>3, <1>4, <1>6
  <2>2. \/ pos.margin + (worst - pos.openNotional) >= 0
        \/ worst - pos.openNotional >= 0 /\ pos.margin >= 0
    BY <1>3 DEF MinDec
  <2>3. worst <= spot
    BY DEF spot
  <2> HIDE DEF margin
  <2> QED BY <1>2, <1>3, <2>1, <2>2, <2>3
<1> HIDE DEF margin
<1>8. ~ (r.badDebt > 0)
  BY <1>5, <1>7 DEF MaxDec
<1> QED BY <1>8 DEF r

\* The value of a position does not depend on its margin.
LEMMA SameValue ==
    ASSUME NEW amm, NEW pos \in PositionType, NEW q \in PositionType, q.size = pos.size
    PROVE  PositionNotionalSpot(amm, q) = PositionNotionalSpot(amm, pos)
BY DEF PositionNotionalSpot, ExitDir

\* RemoveMargin leaves no long underwater, for any market, pool, TWAP and history:
\* the amount is bounded by the free collateral at the smaller of the two values,
\* so closing at the spot value right after it covers the loss.
THEOREM RemoveMarginLeavesLongsSolvent == Spec => RemoveMarginKeepsLongsSolvent
<1> DEFINE Solvent ==
        \A t \in Traders, p \in Pairs, amt \in Margins :
          RemoveMargin(t, p, amt) /\ positions[p][t].size > 0
             => \A s \in {StoreAfter} : ~ Underwater(s, p, t)
<1>1. ASSUME FInv, NEW t \in Traders, NEW p \in Pairs, NEW amt \in Margins,
             RemoveMargin(t, p, amt), positions[p][t].size > 0
      PROVE  ~ Underwater(StoreAfter, p, t)
  <2> DEFINE pos == positions[p][t]
             cpf == markets[p].cpf
             funding == FundingPayment(pos, cpf)
             margin == pos.margin - funding - ToDec(amt)
             w == Withdraw(Store, p, markets[p], t, amt)
             q == positions'[p][t]
             m == markets'[p]
             amm == amms[p]
             spot == PositionNotionalSpot(amm, pos)
             twap == PositionNotionalTWAP(p, pos)
             worst == MinDec(spot, twap)
  <2>1. amt \in Nat
    BY InputAssumption
  <2>2. /\ Funds(w) /\ Neutral(Store, w) /\ margin \in Int
        /\ Removed(StoreAfter, w, p, t, margin, cpf)
    BY <1>1, <2>1, RemoveMarginIs
  <2>3. pos \in PositionType /\ Pool(amm) /\ cpf \in Int
    BY <1>1, FInvFacts DEF MarketType
  <2>4. w.markets[p].cpf = cpf
    <3>1. IsStore(Store) /\ Funds(Store) /\ Store.markets = markets
      BY <1>1, FInvFacts
    <3>2. Withdraw(Store, p, Store.markets[p], t, amt).markets[p].cpf = Store.markets[p].cpf
      BY <3>1, WithdrawPremium, Zenon
    <3> QED BY <3>1, <3>2, Zenon
  <2>5. /\ CanNotionalSpot(amm, pos) /\ CanNotionalTWAP(p, pos)
        /\ FreeCollateral(p, amm, pos, pos.margin - funding) >= ToDec(amt)
    BY <1>1 DEF RemoveMargin
  <2>6. spot \in Int /\ twap \in Int
    <3>1. spot \in Nat
      BY <2>3, <2>5, SpotNat
    <3>2. now \in Int /\ Params[p].lookback \in Nat /\ Abs(pos.size) \in Int
      BY <1>1, <2>3, BoundAssumption, InputAssumption, TypedPosition DEF FInv, Bounded, Abs
    <3> HIDE DEF pos
    <3>3. twap \in Int
      BY <2>5, <3>2, SnapshotsAre, TwapBaseSwapType DEF PositionNotionalTWAP, CanNotionalTWAP
    <3> QED BY <3>1, <3>3
  <2> HIDE DEF w
  <2>7. /\ StoreAfter.markets[p] = m /\ StoreAfter.amms[p] = amm /\ StoreAfter.positions[p][t] = q
        /\ m \in MarketType /\ m.cpf = cpf
    <3>1. markets' = w.markets /\ amms' = w.amms
      BY <2>2 DEF Removed, StoreAfter
    <3>2. w.amms = amms
      BY <1>1, <2>2, FInvFacts DEF Neutral
    <3> QED BY <2>2, <2>4, <3>1, <3>2 DEF Funds, StoreAfter
  <2>8. q \in PositionType /\ q = [pos EXCEPT !.margin = margin, !.cpf = cpf]
    <3>1. IsBook(w.positions) /\ IsTyped(w.positions) /\ w.positions = positions
      BY <1>1, <2>2, FInvFacts DEF Neutral, IsStore, IsBook, IsTyped, Funds
    <3>2. Repriced(w.positions, positions', p, t, margin, cpf)
      BY <2>2 DEF Removed, StoreAfter
    <3> HIDE DEF margin, cpf
    <3>3. IsTyped(positions') /\ Settled(w.positions[p][t], positions'[p][t], margin, cpf)
      BY <2>2, <2>3, <3>1, <3>2, MarginType
    <3> QED BY <3>1, <3>3 DEF IsTyped, Settled
  <2> HIDE DEF q, m, amm
  <2>9. /\ q.size = pos.size /\ q.size > 0 /\ q.openNotional = pos.openNotional
        /\ q.margin = margin /\ q.cpf = cpf
    BY <1>1, <2>3, <2>8 DEF PositionType
  <2>10. worst \in Int /\ worst <= spot
    BY <2>6 DEF MinDec
  <2>11. FreeCollateral(p, amm, pos, pos.margin - funding)
           = pos.margin - funding + MinDec(0, worst - pos.openNotional)
    BY <1>1 DEF FreeCollateral, UnrealizedPnl
  <2>12. worst <= PositionNotionalSpot(amm, q)
    BY <2>3, <2>8, <2>9, <2>10, SameValue
  <2> HIDE DEF spot, twap, worst
  <2>13. q.margin + MinDec(0, worst - q.openNotional) >= 0
    <3>1. pos.margin \in Int /\ pos.openNotional \in Int /\ funding \in Int /\ ToDec(amt) \in Int
      BY <2>1, <2>3, PnlType, TypedPosition, ScaleAssumption DEF ToDec
    <3>2. MinDec(0, worst - pos.openNotional) \in Int
      BY <2>10, <3>1 DEF MinDec
    <3> DEFINE loss == MinDec(0, worst - pos.openNotional)
               d == ToDec(amt)
               have == pos.margin
    <3>3. have - funding + loss >= d /\ have \in Int /\ funding \in Int /\ d \in Int /\ loss \in Int
      BY <2>5, <2>11, <3>1, <3>2
    <3>4. q.margin = have - funding - d /\ MinDec(0, worst - q.openNotional) = loss
      BY <2>9
    <3> HIDE DEF loss, d, have, funding
    <3> QED BY <3>3, <3>4
  <2> HIDE DEF margin, pos, cpf
  <2>14. ASSUME ClosePositionEntirely(m, amm, q).ok
         PROVE  ~ (ClosePositionEntirely(m, amm, q).badDebt > 0)
    BY <2>3, <2>7, <2>8, <2>9, <2>10, <2>12, <2>13, <2>14, SolventLong
  <2> QED BY <2>7, <2>14, Zenon DEF Underwater
<1>2. FInv /\ [Next]_vars => [Solvent]_vars
  <2> SUFFICES ASSUME FInv PROVE Solvent
    OBVIOUS
  <2> QED BY <1>1
<1> QED BY <1>2, InitFunds, NextFunds, PTL DEF Spec, RemoveMarginKeepsLongsSolvent

-----------------------------------------------------------------------------
(* CalcTwap computes the average over the instants of the window. *)

\* How many instants of the window are before the snapshot after i took over.
EndOf(snaps, t, lookback, i) ==
    IF i = Len(snaps) \/ snaps[i + 1].ts > t THEN lookback
    ELSE IF snaps[i + 1].ts <= t - lookback THEN 0
    ELSE snaps[i + 1].ts - (t - lookback)

\* The times of the snapshots, without the pools.
LEMMA SnapshotTimes ==
    ASSUME NEW snaps, IsSnapshots(snaps)
    PROVE  /\ DOMAIN snaps = 1..Len(snaps) /\ Len(snaps) \in Nat
           /\ \A i \in 1..Len(snaps) : snaps[i].ts \in Int
           /\ \A i, j \in 1..Len(snaps) : i < j => snaps[i].ts < snaps[j].ts
<1>1. DOMAIN snaps = 1..Len(snaps) /\ Len(snaps) \in Nat
      /\ \A i \in DOMAIN snaps : snaps[i].ts \in Int
  BY SnapshotFacts
<1>2. \A i, j \in DOMAIN snaps : i < j => snaps[i].ts < snaps[j].ts
  BY Zenon DEF IsSnapshots
<1> QED BY <1>1, <1>2, Zenon

\* The end of a stretch is an instant of the window.
LEMMA EndOfType ==
    ASSUME NEW snaps, IsSnapshots(snaps), NEW t \in Int, NEW lookback \in Nat,
           NEW i \in 0..Len(snaps)
    PROVE  EndOf(snaps, t, lookback, i) \in 0..lookback
<1>1. Len(snaps) \in Nat /\ \A j \in 1..Len(snaps) : snaps[j].ts \in Int
  BY SnapshotTimes
<1>2. i # Len(snaps) => i + 1 \in 1..Len(snaps) /\ snaps[i + 1].ts \in Int
  BY <1>1
<1> QED BY <1>2 DEF EndOf

\* The instants at which a snapshot was in force are as many as the time that the
\* scan counts for it, none if the scan does not read it.
LEMMA ElapsedIs ==
    ASSUME NEW snaps, IsSnapshots(snaps), NEW t \in Int, NEW lookback \in Nat,
           NEW i \in 1..Len(snaps)
    PROVE  /\ EndOf(snaps, t, lookback, i - 1) <= EndOf(snaps, t, lookback, i)
           /\ i \in Visited(snaps, t, lookback) =>
                 Elapsed(snaps, i, t, lookback)
                   = EndOf(snaps, t, lookback, i) - EndOf(snaps, t, lookback, i - 1)
           /\ i \notin Visited(snaps, t, lookback) =>
                 EndOf(snaps, t, lookback, i) = EndOf(snaps, t, lookback, i - 1)
<1> DEFINE n == Len(snaps)
           low == t - lookback
<1>1. /\ DOMAIN snaps = 1..n /\ n \in Nat
      /\ \A j \in 1..n : snaps[j].ts \in Int
      /\ \A j, k \in 1..n : j < k => snaps[j].ts < snaps[k].ts
  BY SnapshotTimes
<1> HIDE DEF n
<1>2. i \in 1..n /\ i \in Int /\ snaps[i].ts \in Int
  BY <1>1 DEF n
<1>3. EndOf(snaps, t, lookback, i - 1)
        = IF snaps[i].ts > t THEN lookback
          ELSE IF snaps[i].ts <= low THEN 0 ELSE snaps[i].ts - low
  <2>1. i - 1 # n /\ (i - 1) + 1 = i
    BY <1>1, <1>2
  <2> QED BY <2>1 DEF EndOf, n
<1>4. CASE i = n
  <2>1. EndOf(snaps, t, lookback, i) = lookback /\ i + 1 \notin DOMAIN snaps
    BY <1>1, <1>2, <1>4 DEF EndOf, n
  <2>2. i \in Visited(snaps, t, lookback) <=> snaps[i].ts <= t
    <3>1. \A j \in DOMAIN snaps : ~ (j > i)
      BY <1>1, <1>2, <1>4
    <3> QED BY <1>1, <1>2, <3>1 DEF Visited
  <2>3. Elapsed(snaps, i, t, lookback) = IF snaps[i].ts <= low THEN t - low ELSE t - snaps[i].ts
    BY <2>1 DEF Elapsed
  <2> QED BY <1>2, <1>3, <2>1, <2>2, <2>3
<1>5. CASE i # n
  <2>1. i + 1 \in 1..n /\ snaps[i + 1].ts \in Int /\ snaps[i].ts < snaps[i + 1].ts
    <3>1. i + 1 \in 1..n /\ i < i + 1
      BY <1>1, <1>2, <1>5
    <3> QED BY <1>1, <1>2, <3>1
  <2> DEFINE s == snaps[i].ts
             e == snaps[i + 1].ts
  <2>2. EndOf(snaps, t, lookback, i)
          = IF e > t THEN lookback ELSE IF e <= low THEN 0 ELSE e - low
    BY <1>5 DEF EndOf, n
  <2>3. Elapsed(snaps, i, t, lookback)
          = IF s <= low THEN (IF e <= t THEN e ELSE t) - low
            ELSE (IF e <= t THEN e ELSE t) - s
    BY <1>1, <2>1 DEF Elapsed
  <2>4. i \in Visited(snaps, t, lookback) <=> s <= t /\ (e <= t => e > low)
    <3>1. i \in Visited(snaps, t, lookback)
            <=> s <= t /\ \A j \in 1..n : j > i /\ snaps[j].ts <= t => snaps[j].ts > low
      BY <1>1, <1>2 DEF Visited
    <3>2. ASSUME NEW j \in 1..n, j > i PROVE snaps[j].ts >= e /\ snaps[j].ts \in Int
      <4>1. j = i + 1 \/ j > i + 1
        BY <1>2, <3>2
      <4> QED BY <1>1, <2>1, <4>1
    <3>3. (e <= t => e > low)
            <=> \A j \in 1..n : j > i /\ snaps[j].ts <= t => snaps[j].ts > low
      <4>1. ASSUME e <= t => e > low, NEW j \in 1..n, j > i, snaps[j].ts <= t
            PROVE  snaps[j].ts > low
        BY <2>1, <3>2, <4>1
      <4>2. ASSUME \A j \in 1..n : j > i /\ snaps[j].ts <= t => snaps[j].ts > low
            PROVE  e <= t => e > low
        <5>1. i + 1 > i
          BY <1>2
        <5> QED BY <2>1, <4>2, <5>1
      <4> QED BY <4>1, <4>2
    <3> QED BY <3>1, <3>3
  <2> HIDE DEF s, e
  <2>5. s \in Int /\ e \in Int /\ s < e /\ low \in Int /\ low <= t /\ lookback = t - low
    BY <1>2, <2>1 DEF s, e
  <2>6. EndOf(snaps, t, lookback, i - 1)
          = IF s > t THEN lookback ELSE IF s <= low THEN 0 ELSE s - low
    BY <1>3 DEF s
  <2> HIDE DEF low
  <2> QED BY <2>2, <2>3, <2>4, <2>5, <2>6
<1> QED BY <1>4, <1>5

\* At those instants no other snapshot was in force,
LEMMA InForceIs ==
    ASSUME NEW snaps, IsSnapshots(snaps), NEW t \in Int, NEW lookback \in Nat,
           NEW i \in 1..Len(snaps),
           NEW k \in (EndOf(snaps, t, lookback, i - 1) + 1)..EndOf(snaps, t, lookback, i)
    PROVE  k \in 1..lookback /\ InForce(snaps, Instant(t, lookback, k)) = {i}
<1> DEFINE n == Len(snaps)
           low == t - lookback
           a == EndOf(snaps, t, lookback, i - 1)
           b == EndOf(snaps, t, lookback, i)
           u == Instant(t, lookback, k)
<1>1. /\ DOMAIN snaps = 1..n /\ n \in Nat
      /\ \A j \in 1..n : snaps[j].ts \in Int
      /\ \A j, l \in 1..n : j < l => snaps[j].ts < snaps[l].ts
  BY SnapshotTimes
<1>2. a \in 0..lookback /\ b \in 0..lookback
  <2>1. i - 1 \in 0..Len(snaps) /\ i \in 0..Len(snaps)
    BY <1>1
  <2> QED BY <2>1, EndOfType
<1>3. /\ a = IF snaps[i].ts > t THEN lookback
             ELSE IF snaps[i].ts <= low THEN 0 ELSE snaps[i].ts - low
      /\ i # n => b = IF snaps[i + 1].ts > t THEN lookback
                      ELSE IF snaps[i + 1].ts <= low THEN 0 ELSE snaps[i + 1].ts - low
  <2>1. i - 1 # n /\ (i - 1) + 1 = i
    BY <1>1
  <2> QED BY <2>1 DEF EndOf
<1> HIDE DEF a, b, n
<1>4. k \in a + 1 .. b /\ i \in 1..n /\ i \in Int
  BY <1>1 DEF a, b, n
<1>5. k \in 1..lookback /\ a < k /\ k <= b
  BY <1>2, <1>4
<1>6. u \in Int /\ u = low + (k - 1) /\ u < t
  BY <1>5 DEF Instant
<1> HIDE DEF u
<1>7. snaps[i].ts <= u
  BY <1>1, <1>2, <1>3, <1>4, <1>5, <1>6
<1>8. \A j \in 1..n : snaps[j].ts <= u => j <= i
  <2> SUFFICES ASSUME NEW j \in 1..n, j > i PROVE snaps[j].ts > u
    BY <1>1, <1>4, <1>6
  <2>1. i # n /\ i + 1 \in 1..n
    BY <1>1, <1>4
  <2>2. snaps[i + 1].ts > u
    BY <1>1, <1>2, <1>3, <1>5, <1>6, <2>1
  <2>3. j = i + 1 \/ j > i + 1
    BY <1>4
  <2> QED BY <1>1, <1>6, <2>1, <2>2, <2>3
<1>9. ASSUME NEW j \in InForce(snaps, u) PROVE j = i
  <2>1. j \in 1..n /\ snaps[j].ts <= u /\ i <= j
    BY <1>1, <1>4, <1>7 DEF InForce
  <2>2. j <= i
    BY <1>8, <2>1
  <2> QED BY <1>4, <2>1, <2>2
<1>10. i \in InForce(snaps, u)
  BY <1>1, <1>4, <1>7, <1>8 DEF InForce
<1> QED BY <1>5, <1>9, <1>10 DEF u

\* and before the first snapshot none was.
LEMMA InForceNone ==
    ASSUME NEW snaps, IsSnapshots(snaps), NEW t \in Int, NEW lookback \in Nat,
           NEW k \in 1..EndOf(snaps, t, lookback, 0)
    PROVE  k \in 1..lookback /\ InForce(snaps, Instant(t, lookback, k)) = {}
<1> DEFINE n == Len(snaps)
           low == t - lookback
           b == EndOf(snaps, t, lookback, 0)
           u == Instant(t, lookback, k)
<1>1. /\ DOMAIN snaps = 1..n /\ n \in Nat
      /\ \A j \in 1..n : snaps[j].ts \in Int
      /\ \A j, l \in 1..n : j < l => snaps[j].ts < snaps[l].ts
  BY SnapshotTimes
<1>2. b \in 0..lookback
  <2>1. 0 \in 0..Len(snaps)
    BY <1>1
  <2> QED BY <2>1, EndOfType
<1>3. 0 # n => b = IF snaps[1].ts > t THEN lookback
                   ELSE IF snaps[1].ts <= low THEN 0 ELSE snaps[1].ts - low
  BY DEF EndOf
<1>4. k \in 1..lookback /\ k <= b /\ u \in Int /\ u = low + (k - 1) /\ u < t
  BY <1>2 DEF Instant
<1> HIDE DEF b, n, u
<1>5. \A j \in 1..n : snaps[j].ts > u
  <2> SUFFICES ASSUME NEW j \in 1..n PROVE snaps[j].ts > u
    OBVIOUS
  <2>1. n # 0 /\ 1 \in 1..n
    BY <1>1
  <2>2. snaps[1].ts > u
    BY <1>1, <1>2, <1>3, <1>4, <2>1
  <2>3. j = 1 \/ j > 1
    BY <1>1
  <2> QED BY <1>1, <1>4, <2>1, <2>2, <2>3
<1>6. InForce(snaps, u) = {}
  BY <1>1, <1>4, <1>5 DEF InForce
<1> QED BY <1>4, <1>6 DEF u

\* The prices weighted by the times of the scan add up to the prices of the instants.
LEMMA InstantsSum ==
    ASSUME NEW snaps, IsSnapshots(snaps), NEW t \in Int, NEW lookback \in Nat,
           NEW price, \A i \in Visited(snaps, t, lookback) : price[i] \in Int,
           NEW weighted, NEW prices,
           \A i \in Visited(snaps, t, lookback) :
              weighted[i] = price[i] * Elapsed(snaps, i, t, lookback),
           \A k \in Covered(snaps, t, lookback) :
              prices[k] = PriceAt(snaps, price, Instant(t, lookback, k))
    PROVE  SumOver(Visited(snaps, t, lookback), weighted, Len(snaps))
             = SumOver(Covered(snaps, t, lookback), prices, lookback)
<1> DEFINE n == Len(snaps)
           V == Visited(snaps, t, lookback)
           C == Covered(snaps, t, lookback)
           w == [i \in 1..n |-> IF i \in V THEN weighted[i] ELSE 0]
           p == [k \in 1..lookback |-> IF k \in C THEN prices[k] ELSE 0]
           end(i) == EndOf(snaps, t, lookback, i)
<1>1. n \in Nat
  BY SnapshotTimes
<1>2. PICK h : IsPrefixSum(h, w, n) /\ SumOver(V, weighted, n) = h[n]
  BY <1>1, SumOfIs, Zenon DEF SumOver
<1>3. PICK g : IsPrefixSum(g, p, lookback) /\ SumOver(C, prices, lookback) = g[lookback]
  BY SumOfIs, Zenon DEF SumOver
<1>4. ASSUME NEW i \in 1..n
      PROVE  /\ end(i - 1) \in 0..lookback /\ end(i) \in 0..lookback /\ end(i - 1) <= end(i)
             /\ i \in V => Elapsed(snaps, i, t, lookback) = end(i) - end(i - 1)
             /\ i \notin V => end(i) = end(i - 1)
  <2>1. i - 1 \in 0..Len(snaps) /\ i \in 0..Len(snaps) /\ i \in 1..Len(snaps)
    BY <1>1
  <2> QED BY <2>1, EndOfType, ElapsedIs
<1>5. ASSUME NEW i \in V, i \in 1..n, NEW k \in (end(i - 1) + 1)..end(i)
      PROVE  p[k] = price[i]
  <2>1. k \in 1..lookback /\ InForce(snaps, Instant(t, lookback, k)) = {i}
    BY <1>5, InForceIs
  <2>2. k \in C
    BY <2>1 DEF Covered
  <2>3. PriceAt(snaps, price, Instant(t, lookback, k)) = price[i]
    BY <2>1, Zenon DEF PriceAt
  <2> QED BY <2>1, <2>2, <2>3
<1>6. ASSUME NEW k \in 1..end(0) PROVE p[k] = 0
  <2>1. k \in 1..lookback /\ InForce(snaps, Instant(t, lookback, k)) = {}
    BY InForceNone
  <2>2. k \notin C
    BY <2>1 DEF Covered
  <2> QED BY <2>1, <2>2
<1>7. \A i \in 1..n : w[i] = IF i \in V THEN weighted[i] ELSE 0
  OBVIOUS
<1>8. \A i \in V : price[i] \in Int /\ weighted[i] = price[i] * Elapsed(snaps, i, t, lookback)
  OBVIOUS
<1>9. end(0) \in 0..lookback /\ end(n) = lookback
  <2>1. 0 \in 0..Len(snaps)
    BY <1>1
  <2> QED BY <2>1, EndOfType DEF EndOf
<1> HIDE DEF n, V, C, w, p, end
<1> DEFINE Bad == {i \in 0..n : ~ (h[i] \in Int /\ g[end(i)] = h[i])}
<1>10. Bad = {}
  <2> SUFFICES ASSUME Bad # {} PROVE FALSE
    OBVIOUS
  <2>1. Bad \subseteq Nat
    BY <1>1
  <2>2. PICK i \in Bad : \A j \in Bad : i <= j
    <3> HIDE DEF Bad
    <3> QED BY <2>1, LeastNatural
  <2>3. i \in 0..n /\ ~ (h[i] \in Int /\ g[end(i)] = h[i])
    OBVIOUS
  <2>4. g[0] = 0 /\ h[0] = 0
    <3>1. 0 \in 0..lookback /\ 0 \in 0..n
      BY <1>1
    <3> HIDE DEF Bad
    <3> QED BY <1>2, <1>3, <3>1, Zenon DEF IsPrefixSum
  <2>5. CASE i = 0
    <3>1. 0 \in 0..lookback /\ 0 <= end(0) /\ \A k \in (0 + 1)..end(0) : p[k] = 0
      BY <1>6, <1>9
    <3>2. g[end(0)] = g[0] + (end(0) - 0) * 0
      <4> HIDE DEF Bad
      <4>1. g[0] \in Int
        BY <2>4
      <4> QED BY <1>3, <1>9, <3>1, <4>1, ConstantStretch
    <3>3. (end(0) - 0) * 0 = 0
      BY <1>9
    <3> QED BY <2>3, <2>4, <2>5, <3>2, <3>3
  <2>6. CASE i # 0
    <3>1. i \in 1..n /\ i - 1 \in 0..n
      BY <1>1, <2>3, <2>6
    <3>2. h[i - 1] \in Int /\ g[end(i - 1)] = h[i - 1]
      <4>1. ~ (i <= i - 1)
        BY <2>3
      <4> QED BY <2>2, <3>1, <4>1
    <3>3. h[i] = h[i - 1] + w[i]
      <4> HIDE DEF Bad
      <4> QED BY <1>2, <2>3, <2>6, Zenon DEF IsPrefixSum
    <3> HIDE DEF Bad
    <3>4. CASE i \notin V
      <4>1. end(i) = end(i - 1) /\ w[i] = 0
        BY <1>4, <1>7, <3>1, <3>4
      <4> QED BY <2>3, <3>2, <3>3, <4>1
    <3>5. CASE i \in V
      <4> DEFINE a == end(i - 1)
                 b == end(i)
      <4>1. /\ a \in 0..lookback /\ b \in 0..lookback /\ a <= b
            /\ Elapsed(snaps, i, t, lookback) = b - a
        BY <1>4, <3>1, <3>5
      <4>2. price[i] \in Int /\ w[i] = price[i] * (b - a)
        <5>1. w[i] = weighted[i]
          BY <1>7, <3>1, <3>5
        <5> QED BY <1>8, <3>5, <4>1, <5>1
      <4>3. \A k \in (a + 1)..b : p[k] = price[i]
        BY <1>5, <3>1, <3>5
      <4> HIDE DEF a, b
      <4>4. g[a] = h[i - 1] /\ g[a] \in Int
        BY <3>2 DEF a
      <4>5. g[b] = g[a] + (b - a) * price[i]
        <5>1. PICK c \in Int : c = price[i]
          BY <4>2
        <5>2. \A k \in (a + 1)..b : p[k] = c
          BY <4>3, <5>1
        <5>3. g[b] = g[a] + (b - a) * c
          BY <1>3, <4>1, <4>4, <5>2, ConstantStretch
        <5> QED BY <5>1, <5>3
      <4>6. b - a \in Int
        BY <4>1
      <4>7. (b - a) * price[i] = price[i] * (b - a) /\ price[i] * (b - a) \in Int
        BY <4>2, <4>6, Associate, Products
      <4> DEFINE x == price[i] * (b - a)
      <4>8. x \in Int /\ g[b] = h[i - 1] + x /\ h[i] = h[i - 1] + x
        BY <3>3, <4>2, <4>4, <4>5, <4>7
      <4> HIDE DEF x
      <4>9. h[i] \in Int /\ g[b] = h[i]
        BY <3>2, <4>8
      <4> QED BY <2>3, <4>9 DEF b
    <3> QED BY <3>4, <3>5
  <2> QED BY <2>5, <2>6
<1>11. n \in 0..n
  BY <1>1
<1>12. g[end(n)] = h[n]
  BY <1>10, <1>11
<1>13. SumOver(V, weighted, n) = SumOver(C, prices, lookback)
  BY <1>2, <1>3, <1>9, <1>12
<1> QED BY <1>13 DEF n, V, C

\* The snapshot in force at the time of the block is read by the scan.
LEMMA InForceVisited ==
    ASSUME NEW snaps, IsSnapshots(snaps), NEW t \in Int, NEW lookback \in Nat,
           NEW i \in Visited(snaps, t, lookback), Visited(snaps, t, lookback) = {i}
    PROVE  InForce(snaps, t) = {i}
<1> DEFINE n == Len(snaps)
<1>1. /\ DOMAIN snaps = 1..n /\ n \in Nat
      /\ \A j \in 1..n : snaps[j].ts \in Int
  BY SnapshotTimes
<1> DEFINE S == {j \in 1..n : snaps[j].ts <= t}
<1>2. i \in S
  BY <1>1 DEF Visited
<1>3. PICK m \in S : \A j \in S : j <= m
  <2>1. IsFiniteSet(1..n)
    <3>1. 1 \in Int /\ n \in Int
      BY <1>1
    <3> QED BY <3>1, FS_Interval, Zenon
  <2>2. S \subseteq 1..n /\ S \subseteq Int
    BY <1>1
  <2> HIDE DEF S
  <2>3. IsFiniteSet(S)
    BY <2>1, <2>2, FS_Subset
  <2> QED BY <1>2, <2>2, <2>3, GreatestInteger
<1>4. m \in Visited(snaps, t, lookback)
  <2>1. \A j \in DOMAIN snaps : ~ (j > m /\ snaps[j].ts <= t)
    BY <1>1, <1>3
  <2> QED BY <1>1, <2>1 DEF Visited
<1>5. m = i
  BY <1>4
<1>6. \A j \in InForce(snaps, t) : j = i
  <2> SUFFICES ASSUME NEW j \in InForce(snaps, t) PROVE j = i
    OBVIOUS
  <2>1. j \in S /\ i <= j /\ j \in 1..n /\ i \in 1..n
    BY <1>1, <1>2 DEF InForce
  <2>2. j <= i
    BY <1>3, <1>5, <2>1
  <2> HIDE DEF S
  <2> QED BY <1>1, <2>1, <2>2
<1>7. i \in InForce(snaps, t)
  BY <1>1, <1>2, <1>3, <1>5 DEF InForce
<1> QED BY <1>6, <1>7

\* For any snapshots in the order of their times, block time, look-back and price of
\* a pool, what the descending scan of CalcTwap accumulates and divides is the average
\* of the price that was in force at each instant of the window.
THEOREM TwapsAreAverages ==
    ASSUME NEW snaps, IsSnapshots(snaps), NEW t \in Int, NEW lookback \in Nat,
           Visited(snaps, t, lookback) # {},
           NEW price, NEW scanned,
           \A i \in Visited(snaps, t, lookback) : price[i] \in Int /\ scanned[i] = price[i]
    PROVE  CalcTwap(snaps, scanned, t, lookback) = Average(snaps, price, t, lookback)
<1> DEFINE n == Len(snaps)
           V == Visited(snaps, t, lookback)
           C == Covered(snaps, t, lookback)
           time == [i \in V |-> Elapsed(snaps, i, t, lookback)]
           weighted == [i \in V |-> scanned[i] * time[i]]
           prices == [k \in C |-> PriceAt(snaps, price, Instant(t, lookback, k))]
           units == [k \in C |-> 1]
           one == [i \in V |-> 1]
<1>1. n \in Nat /\ V \subseteq 1..n
  BY SnapshotFacts DEF Visited
<1>2. \A i \in V : /\ time[i] = Elapsed(snaps, i, t, lookback) /\ time[i] \in Nat
                   /\ (\E j \in V : j > i) => time[i] > 0
  BY ElapsedNat
<1>3. CalcTwap(snaps, scanned, t, lookback)
        = IF \E i \in V : V = {i} THEN scanned[CHOOSE i \in V : TRUE]
          ELSE QuoInt(SumOver(V, weighted, n), SumOver(V, time, n))
  BY Zenon DEF CalcTwap
<1>4. Average(snaps, price, t, lookback)
        = IF C = {} THEN PriceAt(snaps, price, t)
          ELSE QuoInt(SumOver(C, prices, lookback), SumOver(C, units, lookback))
  BY Zenon DEF Average
<1>5. SumOver(V, weighted, n) = SumOver(C, prices, lookback)
  <2>1. \A i \in V : weighted[i] = price[i] * Elapsed(snaps, i, t, lookback)
    BY <1>2
  <2>2. \A k \in C : prices[k] = PriceAt(snaps, price, Instant(t, lookback, k))
    OBVIOUS
  <2> HIDE DEF weighted, prices
  <2> QED BY <2>1, <2>2, InstantsSum
<1>6. SumOver(V, time, n) = SumOver(C, units, lookback)
  <2>1. \A i \in V : one[i] \in Int /\ time[i] = one[i] * Elapsed(snaps, i, t, lookback)
    BY <1>2
  <2>2. \A k \in C : units[k] = PriceAt(snaps, one, Instant(t, lookback, k))
    <3> SUFFICES ASSUME NEW k \in C
                 PROVE  PriceAt(snaps, one, Instant(t, lookback, k)) = 1
      OBVIOUS
    <3>1. (CHOOSE i \in InForce(snaps, Instant(t, lookback, k)) : TRUE) \in V
      <4> DEFINE u == Instant(t, lookback, k)
                 i == CHOOSE i \in InForce(snaps, u) : TRUE
      <4>1. k \in 1..lookback /\ InForce(snaps, u) # {}
        BY DEF Covered
      <4>2. i \in InForce(snaps, u)
        BY <4>1
      <4> HIDE DEF i
      <4>3. u \in Int /\ t - lookback <= u /\ u < t
        BY <4>1 DEF Instant
      <4> HIDE DEF u
      <4>4. /\ i \in 1..n /\ snaps[i].ts <= u /\ DOMAIN snaps = 1..n
            /\ \A j \in 1..n : snaps[j].ts \in Int /\ (snaps[j].ts <= u => j <= i)
        BY <4>2, SnapshotTimes DEF InForce
      <4>5. snaps[i].ts <= t
        BY <4>3, <4>4
      <4>6. \A j \in 1..n : j > i => snaps[j].ts > t - lookback
        BY <1>1, <4>3, <4>4
      <4>7. i \in V
        BY <4>4, <4>5, <4>6 DEF Visited
      <4> QED BY <4>7 DEF i, u
    <3> QED BY <3>1, Zenon DEF PriceAt
  <2> HIDE DEF time, units, one
  <2> QED BY <2>1, <2>2, InstantsSum
<1> HIDE DEF V, C, n, weighted, prices, units
<1>7. time \in [V -> Nat]
  BY <1>2
<1> HIDE DEF time
<1>8. CASE \E i \in V : V = {i}
  <2>1. PICK i \in V : V = {i}
    BY <1>8
  <2>2. (CHOOSE j \in V : TRUE) = i
    BY <2>1
  <2>3. CalcTwap(snaps, scanned, t, lookback) = price[i] /\ price[i] \in Int
    BY <1>3, <1>8, <2>2 DEF V
  <2>4. CASE C = {}
    <3>1. InForce(snaps, t) = {i}
      BY <2>1, InForceVisited DEF V
    <3>2. PriceAt(snaps, price, t) = price[i]
      BY <3>1, Zenon DEF PriceAt
    <3> QED BY <1>4, <2>3, <2>4, <3>2
  <2>5. CASE C # {}
    <3> DEFINE T == SumOver(V, time, n)
               W == SumOver(V, weighted, n)
    <3>1. SumOver(C, units, lookback) \in Nat \ {0}
      <4>1. C \subseteq 1..lookback /\ units \in [C -> Nat] /\ \A k \in C : units[k] = 1
        BY DEF C, units, Covered
      <4>2. PICK k \in C : TRUE
        BY <2>5
      <4> DEFINE U == SumOver(C, units, lookback)
      <4>3. U \in Nat /\ units[k] <= U
        BY <4>1, SumOverNat
      <4> HIDE DEF U
      <4>4. U \in Nat \ {0}
        BY <4>1, <4>3
      <4> QED BY <4>4 DEF U
    <3>2. T = time[i]
      <4> DEFINE f == [j \in 1..n |-> IF j \in V THEN time[j] ELSE 0]
                 z == [j \in 1..n |-> 0]
      <4>1. i \in 1..n /\ f \in [1..n -> Int] /\ z \in [1..n -> Int] /\ f[i] = time[i] /\ z[i] = 0
            /\ \A j \in 1..n : j # i => f[j] = z[j]
        BY <1>1, <1>7, <2>1
      <4>2. SumOf(z, n) = 0
        BY <1>1, SumOfZero
      <4> HIDE DEF z, f
      <4>3. SumOf(f, n) = SumOf(z, n) + (f[i] - z[i])
        BY <1>1, <4>1, SumOfUpdate
      <4>4. SumOf(f, n) = f[i]
        BY <4>1, <4>2, <4>3
      <4> QED BY <4>1, <4>4 DEF f, SumOver
    <3>3. W = price[i] * time[i]
      <4> DEFINE f == [j \in 1..n |-> IF j \in V THEN weighted[j] ELSE 0]
                 z == [j \in 1..n |-> 0]
      <4>0. weighted[i] = price[i] * time[i] /\ weighted[i] \in Int
        <5>1. weighted[i] = scanned[i] * time[i] /\ scanned[i] = price[i]
          BY <2>1 DEF weighted, V
        <5> QED BY <1>7, <2>3, <5>1
      <4>1. i \in 1..n /\ f \in [1..n -> Int] /\ z \in [1..n -> Int] /\ f[i] = weighted[i] /\ z[i] = 0
            /\ \A j \in 1..n : j # i => f[j] = z[j]
        BY <1>1, <2>1, <4>0
      <4>2. SumOf(z, n) = 0
        BY <1>1, SumOfZero
      <4> HIDE DEF z, f
      <4>3. SumOf(f, n) = SumOf(z, n) + (f[i] - z[i])
        BY <1>1, <4>1, SumOfUpdate
      <4>4. SumOf(f, n) = f[i]
        BY <4>1, <4>2, <4>3
      <4> QED BY <4>0, <4>1, <4>4 DEF f, SumOver
    <3> HIDE DEF T, W
    <3>4. T \in Nat \ {0} /\ T = time[i] /\ T = SumOver(C, units, lookback)
          /\ W = SumOver(C, prices, lookback)
      BY <1>5, <1>6, <3>1, <3>2 DEF T, W
    <3>5. W \in Int /\ T * price[i] <= W /\ W <= T * price[i]
      <4>1. W = price[i] * T /\ T \in Int
        BY <3>3, <3>4
      <4>2. price[i] * T = T * price[i] /\ price[i] * T \in Int
        BY <2>3, <4>1, Associate, Products
      <4> QED BY <4>1, <4>2
    <3>6. price[i] <= Quot(W, T) /\ Quot(W, T) <= price[i] /\ Quot(W, T) \in Int
      <4>1. T \in Int \ {0}
        BY <3>4
      <4>2. Quot(W, T) \in Int
        BY <3>5, <4>1, QuotType
      <4> QED BY <2>3, <3>4, <3>5, <4>2, QuotBetween
    <3>7. Quot(W, T) = price[i]
      BY <2>3, <3>6
    <3> QED BY <1>4, <2>3, <2>5, <3>4, <3>7 DEF QuoInt
  <2> QED BY <2>4, <2>5
<1>9. CASE ~ \E i \in V : V = {i}
  <2>1. PICK i \in V, j \in V : i < j
    <3>1. PICK i \in V : TRUE
      BY DEF V
    <3>2. PICK j \in V : j # i
      BY <1>9, <3>1
    <3>3. i < j \/ j < i
      BY <1>1, <3>2
    <3> QED BY <3>3
  <2>2. time[i] > 0 /\ time[i] \in Nat
    <3>1. j > i
      BY <1>1, <2>1
    <3> QED BY <1>2, <3>1
  <2>3. SumOver(V, time, n) \in Nat /\ time[i] <= SumOver(V, time, n)
    BY <1>1, <1>7, SumOverNat
  <2>4. C # {}
    <3> SUFFICES ASSUME C = {} PROVE FALSE
      OBVIOUS
    <3>1. SumOver(C, units, lookback) = 0
      <4> DEFINE f == [k \in 1..lookback |-> IF k \in C THEN units[k] ELSE 0]
      <4>1. \A k \in 1..lookback : f[k] = 0
        OBVIOUS
      <4> HIDE DEF f
      <4>2. SumOf(f, lookback) = 0
        BY <4>1, SumOfZero
      <4> QED BY <4>2 DEF f, SumOver
    <3> QED BY <1>6, <2>2, <2>3, <3>1
  <2> QED BY <1>3, <1>4, <1>5, <1>6, <1>9, <2>4
<1> QED BY <1>8, <1>9

\* The mark price that funding is charged by is the average of the spot prices, on
\* every input of the comparison that TLC makes.
THEOREM TwapAlwaysAverage == Spec => []TwapIsAverage
<1>1. TwapIsAverage
  <2> SUFFICES ASSUME NEW input \in TwapInputs, CanTwapSpot(input[1], input[2], input[3])
               PROVE  TwapSpot(input[1], input[2], input[3])
                        = Average(input[1],
                                  [i \in DOMAIN input[1] |-> SnapshotSpot(input[1][i].amm)],
                                  input[2], input[3])
    BY Zenon DEF TwapIsAverage
  <2> DEFINE snaps == input[1]
             t == input[2]
             lookback == input[3]
             V == Visited(snaps, t, lookback)
             price == [i \in DOMAIN snaps |-> SnapshotSpot(snaps[i].amm)]
             scanned == [i \in V |-> SnapshotSpot(snaps[i].amm)]
  <2>1. IsSnapshots(snaps) /\ t \in Int /\ lookback \in Nat
    BY TwapInputAssumption
  <2>2. V # {} /\ TwapSpot(snaps, t, lookback) = CalcTwap(snaps, scanned, t, lookback)
    BY Zenon DEF CanTwapSpot, TwapSpot
  <2> HIDE DEF snaps, t, lookback
  <2>3. ASSUME NEW i \in V PROVE price[i] \in Int /\ scanned[i] = price[i]
    <3>1. i \in DOMAIN snaps
      BY DEF Visited
    <3>2. snaps[i].amm \in AmmType /\ ValidAmm(snaps[i].amm)
      BY <2>1, <3>1, SnapshotFacts
    <3>3. SnapshotSpot(snaps[i].amm) \in Int
      <4> DEFINE amm == snaps[i].amm
      <4>1. amm.quote \in Int /\ amm.peg \in Int /\ amm.base \in Int \ {0}
        BY <3>2 DEF AmmType, ValidAmm
      <4>2. Mul(amm.quote, amm.peg) \in Int
        BY <4>1, MulType
      <4> QED BY <4>1, <4>2, QuoType DEF SnapshotSpot
    <3> QED BY <3>1, <3>3
  <2>4. CalcTwap(snaps, scanned, t, lookback) = Average(snaps, price, t, lookback)
    <3> HIDE DEF price, scanned
    <3> QED BY <2>1, <2>2, <2>3, TwapsAreAverages
  <2> QED BY <2>2, <2>4 DEF snaps, t, lookback
<1> QED BY <1>1, PTL

-----------------------------------------------------------------------------
(* What becomes of positions.  A trade leaves a margin and an open notional *)
(* that are not negative; so does a change of margin; a liquidation deletes *)
(* the position or, in part, leaves a margin that rounds to zero at least.  *)

Sound(pos) == pos.margin >= 0 /\ pos.openNotional >= 0

\* increasePosition
LEMMA IncreaseSound ==
    ASSUME NEW m \in MarketType, NEW amm, Pool(amm), NEW pos \in PositionType,
           pos.openNotional >= 0, NEW dir,
           NEW notional \in Nat, NEW limit, NEW lev \in Nat \ {0},
           IncreasePosition(m, amm, pos, dir, notional, limit, lev).ok
    PROVE  Sound(IncreasePosition(m, amm, pos, dir, notional, limit, lev).pos)
<1> DEFINE r == IncreasePosition(m, amm, pos, dir, notional, limit, lev)
           margin == pos.margin + Quo(notional, lev) - FundingPayment(pos, m.cpf)
<1>1. m.cpf \in Int /\ Quo(notional, lev) \in Int
  BY QuoType DEF MarketType
<1>2. margin \in Int
  BY <1>1, PnlType, TypedPosition
<1>3. r.pos.margin = MaxDec(0, margin) /\ r.pos.openNotional = pos.openNotional + notional
  BY DEF IncreasePosition, Failed
<1> HIDE DEF r, margin
<1>4. MaxDec(0, margin) >= 0 /\ pos.openNotional + notional >= 0
  BY <1>2, TypedPosition DEF MaxDec
<1>5. Sound(r.pos)
  BY <1>3, <1>4 DEF Sound
<1> QED BY <1>5 DEF r

\* decreasePosition refuses a negative open notional.
LEMMA DecreaseSound ==
    ASSUME NEW m \in MarketType, NEW amm, Pool(amm), NEW pos \in PositionType,
           NEW notional \in Nat, NEW limit,
           DecreasePosition(m, amm, pos, notional, limit).ok
    PROVE  Sound(DecreasePosition(m, amm, pos, notional, limit).pos)
<1> DEFINE r == DecreasePosition(m, amm, pos, notional, limit)
           dir == ExitDir(pos)
           size == Signed(SwappedBase(amm, dir, notional), dir)
           current == PositionNotionalSpot(amm, pos)
           pnl == UnrealizedPnl(pos, current)
           realized == Mul(pnl, Quo(Abs(size), Abs(pos.size)))
           margin == pos.margin + realized - FundingPayment(pos, m.cpf)
           open == RemainOpenNotional(pos, current - notional, pnl - realized)
<1>1. r.pos.margin = MaxDec(0, margin) /\ r.pos.openNotional = open /\ open >= 0
  BY DEF DecreasePosition, CanDecrease, Failed
<1>2. r.pos \in PositionType
  BY DecreasePayment DEF IsPayment
<1> HIDE DEF r, margin, open
<1>3. r.pos.margin \in Int /\ r.pos.openNotional \in Int
  BY <1>2, TypedPosition
<1>4. r.pos.margin >= 0
  <2>1. MaxDec(0, margin) = 0 \/ (0 < margin /\ MaxDec(0, margin) = margin)
    BY DEF MaxDec
  <2> QED BY <1>1, <1>3, <2>1
<1>5. Sound(r.pos)
  BY <1>1, <1>3, <1>4 DEF Sound
<1> QED BY <1>5 DEF r

\* closePositionEntirely, and closeAndOpenReversePosition, which starts again from
\* an empty position.
LEMMA CloseSound ==
    ASSUME NEW m, NEW amm, NEW pos, ClosePositionEntirely(m, amm, pos).ok
    PROVE  /\ ClosePositionEntirely(m, amm, pos).pos = ZeroPosition
           /\ ClosePositionEntirely(m, amm, pos).deleted
BY DEF ClosePositionEntirely, Failed

\* Nothing is owed on an empty position.
LEMMA ZeroSound == ZeroPosition \in PositionType /\ Sound(ZeroPosition)
BY DEF ZeroPosition, PositionType, Sound

\* closeAndOpenReversePosition
LEMMA CloseAndOpenSound ==
    ASSUME NEW m \in MarketType, NEW amm, Pool(amm), NEW pos \in PositionType,
           NEW quote \in Nat, NEW lev \in Nat \ {0}, NEW limit,
           CloseAndOpenReversePosition(m, amm, pos, quote, lev, limit).ok
    PROVE  Sound(CloseAndOpenReversePosition(m, amm, pos, quote, lev, limit).pos)
<1> DEFINE r == CloseAndOpenReversePosition(m, amm, pos, quote, lev, limit)
           close == ClosePositionEntirely(m, amm, pos)
           remaining == lev * quote - close.notional
           newLimit == IF limit > 0 THEN limit - Abs(close.size) ELSE limit
           open == IncreasePosition(m, close.amm, ZeroPosition, ExitDir(pos),
                                    remaining, newLimit, lev)
<1>1. close.ok /\ (r = close \/ (open.ok /\ ~ (remaining < 0)))
  BY DEF CloseAndOpenReversePosition, Failed
<1>2. IsPayment(close) /\ Pool(close.amm)
  BY <1>1, ClosePayment, CloseResponse, TypedPosition DEF IsResponse
<1>3. CASE r = close
  BY <1>1, <1>3, CloseSound, ZeroSound
<1>4. CASE r # close
  <2>1. open.ok /\ ~ (remaining < 0)
    BY <1>1, <1>4
  <2>2. remaining \in Nat
    <3>1. remaining \in Int
      BY <1>2 DEF IsPayment
    <3> HIDE DEF remaining
    <3> QED BY <2>1, <3>1
  <2>3. ZeroPosition \in PositionType /\ ZeroPosition.openNotional >= 0
    BY ZeroSound DEF Sound
  <2>4. Sound(open.pos)
    <3> HIDE DEF close, remaining, newLimit
    <3> QED BY <1>2, <2>1, <2>2, <2>3, IncreaseSound
  <2>5. open \in [ok : {open.ok}, amm : {open.amm}, pos : {open.pos},
                  deleted : {open.deleted}, notional : {open.notional},
                  size : {open.size}, badDebt : {open.badDebt}, toVault : {open.toVault}]
    <3> HIDE DEF close, remaining, newLimit
    <3> QED BY <2>1 DEF IncreasePosition, Failed
  <2>6. r = [open EXCEPT !.deleted = TRUE,
                         !.notional = @ + close.notional,
                         !.size = @ + close.size,
                         !.badDebt = @ + close.badDebt,
                         !.toVault = @ + close.toVault]
    BY <1>4, Zenon DEF CloseAndOpenReversePosition, Failed
  <2> HIDE DEF r, open, close, remaining
  <2>7. r.pos = open.pos
    BY <2>5, <2>6
  <2>8. Sound(r.pos)
    BY <2>4, <2>7
  <2> QED BY <2>8 DEF r
<1> QED BY <1>3, <1>4

\* The response of OpenPosition
LEMMA OpenSound ==
    ASSUME NEW m \in MarketType, NEW amm, Pool(amm), NEW pos \in PositionType,
           pos.openNotional >= 0, NEW dir,
           NEW quote \in Nat, NEW lev \in Nat \ {0}, NEW limit,
           OpenResponse(m, amm, pos, dir, quote, lev, limit).ok
    PROVE  Sound(OpenResponse(m, amm, pos, dir, quote, lev, limit).pos)
<1>1. lev * quote \in Nat
  OBVIOUS
<1>2. \/ OpenResponse(m, amm, pos, dir, quote, lev, limit)
           = IncreasePosition(m, amm, pos, dir, lev * quote, limit, lev)
      \/ OpenResponse(m, amm, pos, dir, quote, lev, limit)
           = DecreasePosition(m, amm, pos, lev * quote, limit)
      \/ OpenResponse(m, amm, pos, dir, quote, lev, limit)
           = CloseAndOpenReversePosition(m, amm, pos, quote, lev, limit)
  BY DEF OpenResponse, OpenReversePosition, Failed
<1> QED BY <1>1, <1>2, IncreaseSound, DecreaseSound, CloseAndOpenSound

\* PayVault leaves the premium fraction of the market alone.
LEMMA PayVaultPremium ==
    ASSUME NEW s, IsStore(s), Funds(s), NEW p \in Pairs, NEW t, NEW amt
    PROVE  PayVault(s, p, s.markets[p], t, amt).markets[p].cpf = s.markets[p].cpf
<1>1. CASE amt > 0
  BY <1>1 DEF PayVault, IsStore
<1>2. CASE ~ (amt > 0)
  <2> DEFINE give == -amt
  <2>1. PayVault(s, p, s.markets[p], t, amt) = Withdraw(s, p, s.markets[p], t, give)
    BY <1>2 DEF PayVault
  <2> HIDE DEF give
  <2>2. Withdraw(s, p, s.markets[p], t, give).markets[p].cpf = s.markets[p].cpf
    BY WithdrawPremium, Zenon
  <2> QED BY <2>1, <2>2, Zenon
<1> QED BY <1>1, <1>2

\* What afterPositionUpdate stores: the pool of the response, the position that is
\* kept, and nothing else of pools, positions and premium fractions.
Updated(s, u, p, t, r) ==
    /\ u.amms[p] = r.amm
    /\ u.markets[p].cpf = s.markets[p].cpf
    /\ \A x \in Pairs, y \in Traders :
          u.positions[x][y] = IF x = p /\ y = t THEN Kept(s.positions[p][t], r)
                              ELSE s.positions[x][y]
\* afterPositionUpdate does so.
LEMMA AfterPositionUpdated ==
    ASSUME NEW s, StoreOK(s), Funds(s), NEW p \in Pairs, NEW t \in Traders, NEW r
    PROVE  Updated(s, AfterPositionUpdate(s, p, t, r), p, t, r)
<1> DEFINE amt == RoundInt(r.toVault)
           paid == PayVault(s, p, s.markets[p], t, amt)
           q == Kept(s.positions[p][t], r)
           u == AfterPositionUpdate(s, p, t, r)
<1>1. Neutral(s, paid)
  BY PayVaultNeutral DEF StoreOK
<1>2. /\ paid.amms = s.amms /\ paid.positions = s.positions /\ IsRecord(paid) /\ IsStore(paid)
  BY <1>1 DEF Neutral, IsStore, IsRecord
<1>3. paid.markets[p].cpf = s.markets[p].cpf
  <2> HIDE DEF amt
  <2> QED BY PayVaultPremium DEF StoreOK
<1> HIDE DEF paid
<1>4. /\ u.amms = [paid.amms EXCEPT ![p] = r.amm]
      /\ u.positions = [paid.positions EXCEPT ![p][t] = q]
      /\ u.markets = paid.markets
  BY <1>2 DEF AfterPositionUpdate, IsRecord, paid
<1> HIDE DEF q, u
<1>5. u.amms[p] = r.amm
  BY <1>2, <1>4 DEF IsStore
<1>6. \A x \in Pairs, y \in Traders :
         u.positions[x][y] = IF x = p /\ y = t THEN q ELSE s.positions[x][y]
  BY <1>2, <1>4 DEF IsStore
<1>7. Updated(s, u, p, t, r)
  BY <1>3, <1>4, <1>5, <1>6 DEF Updated, q
<1> QED BY <1>7 DEF u

\* What a step that is no liquidation does to a position
Kin(old, new) == new.size # 0 \/ new = ZeroPosition \/ (new.size = old.size /\ old.stored)
Moved(old, new) == new = old \/ (Sound(new) /\ Kin(old, new))
\* A trade moves a position.
LEMMA KeptMoved ==
    ASSUME NEW old, NEW r, Sound(r.pos)
    PROVE  Moved(old, Kept(old, r))
BY ZeroSound DEF Kept, Moved, Kin

\* The positions of a behaviour before a step
Notionals(ps) == \A x \in Pairs, y \in Traders : ps[x][y].openNotional >= 0
AllMoved(ps, qs) == \A x \in Pairs, y \in Traders : Moved(ps[x][y], qs[x][y])

\* OpenPosition
LEMMA OpenPositionMoves ==
    ASSUME FInv, Notionals(positions), NEW t \in Traders, NEW p \in Pairs, NEW dir,
           NEW quote \in Nat, NEW lev \in Nat \ {0}, NEW limit,
           OpenPosition(t, p, dir, quote, lev, limit)
    PROVE  AllMoved(positions, positions')
<1> DEFINE r == OpenResponse(markets[p], amms[p], positions[p][t], dir, quote, lev, limit)
<1>1. r.ok /\ Commit(AfterPositionUpdate(Store, p, t, r))
  BY DEF OpenPosition
<1>2. Sound(r.pos)
  <2> DEFINE m == markets[p]
             pos == positions[p][t]
             amm == amms[p]
  <2>1. m \in MarketType /\ pos \in PositionType /\ Pool(amm) /\ pos.openNotional >= 0
    BY FInvFacts DEF Notionals
  <2> HIDE DEF m, pos, amm
  <2>2. OpenResponse(m, amm, pos, dir, quote, lev, limit).ok
    BY <1>1 DEF m, amm, pos
  <2>3. Sound(OpenResponse(m, amm, pos, dir, quote, lev, limit).pos)
    BY <2>1, <2>2, OpenSound
  <2> QED BY <2>3 DEF m, amm, pos
<1> HIDE DEF r
<1>3. Updated(Store, AfterPositionUpdate(Store, p, t, r), p, t, r)
  BY FInvFacts, AfterPositionUpdated
<1>4. \A x \in Pairs, y \in Traders :
         positions'[x][y] = IF x = p /\ y = t THEN Kept(positions[p][t], r)
                            ELSE positions[x][y]
  BY <1>1, <1>3, FInvFacts DEF Updated, Commit
<1> QED BY <1>2, <1>4, KeptMoved DEF AllMoved, Moved

\* ClosePosition deletes the position.
LEMMA ClosePositionMoves ==
    ASSUME FInv, NEW t \in Traders, NEW p \in Pairs, ClosePosition(t, p)
    PROVE  /\ AllMoved(positions, positions')
           /\ \A x \in Pairs, y \in Traders :
                 positions'[x][y] \in {positions[x][y], ZeroPosition}
<1> DEFINE r == ClosePositionEntirely(markets[p], amms[p], positions[p][t])
<1>1. r.ok /\ Commit(AfterPositionUpdate(Store, p, t, r))
  BY DEF ClosePosition
<1>2. r.pos = ZeroPosition /\ r.deleted
  BY <1>1, CloseSound
<1> HIDE DEF r
<1>3. Updated(Store, AfterPositionUpdate(Store, p, t, r), p, t, r)
  BY FInvFacts, AfterPositionUpdated
<1>4. \A x \in Pairs, y \in Traders :
         positions'[x][y] = IF x = p /\ y = t THEN Kept(positions[p][t], r)
                            ELSE positions[x][y]
  BY <1>1, <1>3, FInvFacts DEF Updated, Commit
<1>5. Kept(positions[p][t], r) = ZeroPosition
  BY <1>2 DEF Kept, ZeroPosition
<1> QED BY <1>4, <1>5, ZeroSound DEF AllMoved, Moved, Kin

\* A change of one margin
LEMMA RepricedMoves ==
    ASSUME NEW ps, IsBook(ps), IsTyped(ps), Notionals(ps), NEW p \in Pairs, NEW t \in Traders,
           ps[p][t].stored, NEW margin \in Nat, NEW cpf \in Int,
           NEW qs, Repriced(ps, qs, p, t, margin, cpf)
    PROVE  /\ AllMoved(ps, qs)
           /\ \A x \in Pairs, y \in Traders : qs[x][y].size = ps[x][y].size
<1> DEFINE old == ps[p][t]
           new == [old EXCEPT !.margin = margin, !.cpf = cpf]
<1>1. \A x \in Pairs, y \in Traders : qs[x][y] = IF x = p /\ y = t THEN new ELSE ps[x][y]
  BY DEF IsBook, Repriced
<1>2. old \in PositionType /\ old.openNotional >= 0
  BY DEF IsTyped, Notionals
<1>3. new.margin = margin /\ new.openNotional = old.openNotional /\ new.size = old.size
  <2> HIDE DEF old
  <2> QED BY <1>2 DEF PositionType
<1>4. Sound(new) /\ Kin(old, new)
  <2> HIDE DEF new
  <2> QED BY <1>2, <1>3 DEF Sound, Kin
<1> HIDE DEF new
<1> QED BY <1>1, <1>3, <1>4 DEF AllMoved, Moved

\* AddMargin refuses a negative margin.
LEMMA AddMarginMoves ==
    ASSUME FInv, Notionals(positions), NEW t \in Traders, NEW p \in Pairs, NEW amt \in Nat,
           AddMargin(t, p, amt)
    PROVE  /\ AllMoved(positions, positions')
           /\ \A x \in Pairs, y \in Traders : positions'[x][y].size = positions[x][y].size
<1> DEFINE pos == positions[p][t]
           cpf == markets[p].cpf
           margin == pos.margin - FundingPayment(pos, cpf) + ToDec(amt)
<1>1. /\ pos.stored /\ margin >= 0
      /\ positions' = [positions EXCEPT ![p][t].margin = margin, ![p][t].cpf = cpf]
  BY DEF AddMargin
<1>2. pos \in PositionType /\ cpf \in Int /\ ToDec(amt) \in Int
  BY FInvFacts, ScaleAssumption DEF MarketType, ToDec
<1>3. margin \in Int
  <2> HIDE DEF pos, cpf
  <2>1. FundingPayment(pos, cpf) \in Int /\ pos.margin \in Int
    BY <1>2, PnlType, TypedPosition
  <2> QED BY <1>2, <2>1
<1>4. IsBook(positions) /\ IsTyped(positions) /\ Repriced(positions, positions', p, t, margin, cpf)
  BY <1>1, FInvFacts DEF IsStore, IsBook, IsTyped, Repriced
<1> HIDE DEF margin, cpf
<1>5. margin \in Nat /\ positions[p][t].stored
  BY <1>1, <1>3
<1> QED BY <1>2, <1>4, <1>5, RepricedMoves

\* RemoveMargin lets go of free collateral only, which is at most the margin.
LEMMA RemoveMarginMoves ==
    ASSUME FInv, Notionals(positions), NEW t \in Traders, NEW p \in Pairs, NEW amt \in Nat,
           RemoveMargin(t, p, amt)
    PROVE  /\ AllMoved(positions, positions')
           /\ \A x \in Pairs, y \in Traders : positions'[x][y].size = positions[x][y].size
<1> DEFINE pos == positions[p][t]
           cpf == markets[p].cpf
           funding == FundingPayment(pos, cpf)
           margin == pos.margin - funding - ToDec(amt)
           w == Withdraw(Store, p, markets[p], t, amt)
           amm == amms[p]
           worst == MinDec(PositionNotionalSpot(amm, pos), PositionNotionalTWAP(p, pos))
           loss == MinDec(0, UnrealizedPnl(pos, worst))
<1>1. /\ Funds(w) /\ Neutral(Store, w) /\ margin \in Int
      /\ Removed(StoreAfter, w, p, t, margin, cpf)
  BY RemoveMarginIs
<1>2. /\ pos.stored /\ CanNotionalSpot(amm, pos) /\ CanNotionalTWAP(p, pos)
      /\ FreeCollateral(p, amm, pos, pos.margin - funding) >= ToDec(amt)
  BY DEF RemoveMargin
<1>3. pos \in PositionType /\ Pool(amm) /\ cpf \in Int
  BY FInvFacts DEF MarketType
<1>4. worst \in Int
  <2>1. PositionNotionalSpot(amm, pos) \in Nat
    BY <1>2, <1>3, SpotNat
  <2>2. now \in Int /\ Params[p].lookback \in Nat /\ Abs(pos.size) \in Int
    BY <1>3, BoundAssumption, InputAssumption, TypedPosition DEF FInv, Bounded, Abs
  <2> HIDE DEF pos
  <2>3. PositionNotionalTWAP(p, pos) \in Int
    BY <1>2, <2>2, SnapshotsAre, TwapBaseSwapType DEF PositionNotionalTWAP, CanNotionalTWAP
  <2> QED BY <2>1, <2>3 DEF MinDec
<1>5. FreeCollateral(p, amm, pos, pos.margin - funding) = pos.margin - funding + loss
  BY DEF FreeCollateral
<1> HIDE DEF worst
<1>6. UnrealizedPnl(pos, worst) \in Int /\ funding \in Int /\ pos.margin \in Int
      /\ ToDec(amt) \in Int
  BY <1>3, <1>4, PnlType, TypedPosition, ScaleAssumption DEF ToDec
<1>7. loss \in Int /\ loss <= 0
  BY <1>6 DEF MinDec
<1>8. margin \in Nat
  <2> DEFINE d == ToDec(amt)
             have == pos.margin
  <2>1. have - funding + loss >= d /\ have \in Int /\ funding \in Int /\ d \in Int
    BY <1>2, <1>5, <1>6
  <2>2. margin = have - funding - d
    OBVIOUS
  <2> HIDE DEF loss, d, have, funding, margin
  <2> QED BY <1>7, <2>1, <2>2
<1> HIDE DEF w, margin, cpf
<1>9. IsBook(positions) /\ IsTyped(positions) /\ w.positions = positions
  BY <1>1, FInvFacts DEF Neutral, IsStore, IsBook, IsTyped, Funds
<1>10. Repriced(positions, positions', p, t, margin, cpf)
  BY <1>1, <1>9 DEF Removed, StoreAfter
<1> QED BY <1>2, <1>3, <1>8, <1>9, <1>10, RepricedMoves

\* The steps that change no position
Idle ==
    \/ \E t \in Traders, amt \in Donations : DonateToEcosystemFund(t, amt)
    \/ \E p \in Pairs :
          \/ \E peg \in Pegs : EditPriceMultiplier(p, peg)
          \/ \E k \in SwapInvariants : EditSwapInvariant(p, k)
          \/ \E enabled \in Toggles : ChangeMarketEnabledParameter(p, enabled)
    \/ \E id \in DOMAIN IntervalsPerDay, index \in [Pairs -> IndexPrices] :
          AfterEpochEnd(id, index)
    \/ NextBlock
    \/ UNCHANGED vars
\* They leave all positions alone.
LEMMA IdlePositions == Idle => positions' = positions
BY Zenon DEF Idle, DonateToEcosystemFund, EditPriceMultiplier, EditSwapInvariant,
   ChangeMarketEnabledParameter, AfterEpochEnd, NextBlock, vars

\* Nothing sold is nothing realised.
LEMMA NothingRealized ==
    ASSUME NEW x \in Int, NEW d \in Int \ {0}
    PROVE  Quo(0, d) = 0 /\ Mul(0, x) = 0 /\ Mul(x, 0) = 0
<1>1. ChopNat(0) = 0
  <2>1. ChopNat(0 * Scale) = 0
    BY ChopExact
  <2>2. 0 * Scale = 0
    BY ScaleAssumption
  <2> QED BY <2>1, <2>2
<1>2. 0 * x = 0 /\ x * 0 = 0
  OBVIOUS
<1>3. Mul(0, x) = 0 /\ Mul(x, 0) = 0
  BY <1>1, <1>2 DEF Mul, ChopPrecisionAndRound
<1>4. Quo(0, d) = 0
  <2> DEFINE n == Abs(0) * Scale
             b == Abs(d)
             digits == (n \div b) * Scale + ((n % b) * Scale) \div b
  <2>1. n = 0 /\ b \in Nat \ {0}
    BY ScaleAssumption DEF Abs
  <2>2. n \div b = 0 /\ n % b = 0
    <3> HIDE DEF n, b
    <3> QED BY <2>1
  <2>3. digits = 0
    <3> HIDE DEF n, b
    <3>1. 0 * Scale = 0 /\ 0 \div b = 0
      BY <2>1, ScaleAssumption
    <3> QED BY <2>2, <3>1
  <2>4. Quo(0, d) = ChopNat(digits) \/ Quo(0, d) = -ChopNat(digits)
    BY DEF Quo
  <2> HIDE DEF digits
  <2> QED BY <1>1, <2>3, <2>4
<1> QED BY <1>3, <1>4

\* A short has no part that is put up for sale.
LEMMA MulNegative ==
    ASSUME NEW x \in Int, x < 0, NEW y \in Nat
    PROVE  Mul(x, y) <= 0
<1>1. PICK z \in Nat : x * y = -z
  <2>1. (-x) * y \in Nat /\ x * y = -((-x) * y)
    OBVIOUS
  <2> QED BY <2>1
<1>2. ChopNat(z) \in Nat
  BY ChopBounds
<1>3. CASE z = 0
  <2>1. ChopPrecisionAndRound(-z) = ChopNat(z) /\ Mul(0, 0) = 0 /\ 0 * 0 = 0
    BY <1>3, NothingRealized DEF ChopPrecisionAndRound
  <2>2. ChopNat(z) = 0
    BY <1>3, <2>1 DEF Mul, ChopPrecisionAndRound
  <2> QED BY <1>1, <2>1, <2>2 DEF Mul
<1>4. CASE z # 0
  <2>1. -z < 0 /\ -(-z) = z
    BY <1>4
  <2> QED BY <1>1, <1>2, <2>1 DEF Mul, ChopPrecisionAndRound
<1> QED BY <1>3, <1>4

\* What a liquidation in part leaves of a position: the margin may be negative by
\* less than half a coin, which sdk.NewCoin in the event rounds away; of a short
\* it sells nothing and takes nothing.
PartOf(old, new) ==
    /\ old.size # 0
    /\ new.openNotional >= 0
    /\ RoundInt(new.margin) >= 0
    /\ old.size < 0 => new.size = old.size /\ new.margin >= 0

\* No base assets, whichever the direction
LEMMA SignedZero == ASSUME NEW amt \in Int, amt = 0, NEW dir PROVE Signed(amt, dir) = 0
<1>1. \A x \in Int : -x \in Int /\ x + (-x) = 0
  OBVIOUS
<1>2. PICK b \in Int : b = -amt /\ amt + b = 0
  BY <1>1, Zenon
<1>3. b = 0
  <2>1. \A x, y \in Int : x = 0 /\ x + y = 0 => y = 0
    OBVIOUS
  <2> QED BY <1>2, <2>1, Zenon
<1>4. Signed(amt, dir) \in {amt, b}
  BY <1>2, Zenon DEF Signed
<1> QED BY <1>3, <1>4, Zenon

\* The position after decreasePosition and the fee
LEMMA PartLeft ==
    ASSUME NEW m \in MarketType, NEW amm, Pool(amm), NEW pos \in PositionType, NEW p \in Pairs,
           NEW quote \in Nat, NEW fee \in Nat,
           pos.size < 0 => quote = 0 /\ fee = 0,
           DecreasePosition(m, amm, pos, quote, 0).ok,
           NEW left, left = [DecreasePosition(m, amm, pos, quote, 0).pos EXCEPT !.margin = @ - fee],
           ~ (RoundInt(left.margin) < 0)
    PROVE  PartOf(pos, left)
<1> DEFINE r == DecreasePosition(m, amm, pos, quote, 0)
           size == Signed(SwappedBase(amm, ExitDir(pos), quote), ExitDir(pos))
<1>1. r.pos \in PositionType /\ Sound(r.pos)
  BY DecreasePayment, DecreaseSound DEF IsPayment
<1>2. r.pos.size = pos.size + size /\ pos.size # 0
  BY DEF DecreasePosition, CanDecrease, Failed
<1>3. pos.size < 0 => size = 0
  <2>1. ASSUME quote = 0 PROVE SwappedBase(amm, ExitDir(pos), quote) = 0
    BY <2>1 DEF SwappedBase
  <2> QED BY <2>1, SignedZero
<1> HIDE DEF r, size
<1>4. left = [r.pos EXCEPT !.margin = @ - fee]
  BY DEF r
<1>5. /\ left.margin = r.pos.margin - fee /\ left.openNotional = r.pos.openNotional
      /\ left.size = r.pos.size
  BY <1>1, <1>4 DEF PositionType
<1>6. r.pos.margin \in Int /\ pos.size \in Int
  BY <1>1, TypedPosition
<1>7. left.margin \in Int
  BY <1>5, <1>6
<1>8. RoundInt(left.margin) \in Int
  BY <1>7, RoundType
<1>9. pos.size < 0 => left.size = pos.size /\ left.margin >= 0
  BY <1>1, <1>2, <1>3, <1>5, <1>6 DEF Sound
<1> QED BY <1>1, <1>2, <1>5, <1>8, <1>9 DEF PartOf, Sound

\* One position of a store is rewritten.
Rewritten(s, u, p, t, q) ==
    \A x \in Pairs, y \in Traders :
        u.positions[x][y] = IF x = p /\ y = t THEN q ELSE s.positions[x][y]

\* executePartialLiquidation
LEMMA PartialLiquidationLeaves ==
    ASSUME NEW s, StoreOK(s), Funds(s), NEW p \in Pairs, NEW t \in Traders, NEW l \in Traders
    PROVE  \/ PartialLiquidation(s, p, t, l).store = s
           \/ \E q : /\ PartOf(s.positions[p][t], q)
                     /\ Rewritten(s, PartialLiquidation(s, p, t, l).store, p, t, q)
<1> DEFINE m == s.markets[p]
           amm == s.amms[p]
           pos == s.positions[p][t]
           part == PartialSize(p, pos)
           quote == FromQuoteReserveToAsset(amm, GetQuoteReserveAmt(amm, part, ExitDir(pos)))
           r == DecreasePosition(m, amm, pos, quote, 0)
           fee == Mul(quote, Params[p].liquidationFee)
           toLiquidator == RoundInt(QuoInt(fee, 2))
           toFund == RoundInt(fee - QuoInt(fee, 2))
           left == [r.pos EXCEPT !.margin = @ - fee]
           decreased == [s EXCEPT !.amms[p] = r.amm, !.positions[p][t] = left]
           u == DistributeLiquidateRewards(decreased, p, m, l, toFund, toLiquidator)
           can == CanGetQuoteReserveAmt(amm, part, ExitDir(pos))
<1>1. \/ PartialLiquidation(s, p, t, l).store = s
      \/ /\ can /\ r.ok /\ ~ (RoundInt(left.margin) < 0)
         /\ PartialLiquidation(s, p, t, l).store = LetOff(u, p, r.badDebt)
  BY DEF PartialLiquidation, Outcome
<1>2. ASSUME can, r.ok, ~ (RoundInt(left.margin) < 0)
      PROVE  PartOf(pos, left) /\ Rewritten(s, u, p, t, left) /\ IsStore(u)
  <2>1. /\ IsStore(s) /\ Pool(amm) /\ pos \in PositionType /\ m \in MarketType
        /\ IsPosition(pos)
    BY DEF StoreOK, IsStore, Funds
  <2>2. pos.size \in Int /\ Params[p].partial \in Nat
    BY <2>1, TypedPosition, InputAssumption, MarketAssumption DEF ValidMarket, IsPercent
  <2>3. part \in Int /\ (pos.size < 0 => part <= 0)
    <3> DEFINE size == pos.size
               share == Params[p].partial
    <3>1. part = Mul(size, share)
      BY DEF PartialSize
    <3>2. size \in Int /\ share \in Nat /\ share \in Int
      BY <2>2
    <3> HIDE DEF size, share, part
    <3>3. part \in Int /\ (size < 0 => part <= 0)
      BY <3>1, <3>2, MulType, MulNegative
    <3> QED BY <3>3 DEF size
  <2>4. quote \in Nat
    <3>1. SwapBaseDelta(amm, part, ExitDir(pos)) \in Nat
      <4> HIDE DEF part, amm, pos
      <4> QED BY <1>2, <2>1, <2>3, SwapBaseNat
    <3> QED BY <3>1 DEF SwapBaseDelta
  <2>5. pos.size < 0 => quote = 0
    <3>1. amm.peg \in Int
      BY <2>1 DEF Pool, AmmType
    <3> HIDE DEF part
    <3> QED BY <2>3, <3>1, NothingRealized DEF GetQuoteReserveAmt, FromQuoteReserveToAsset
  <2> HIDE DEF quote
  <2>6. IsResponse(r, amm, pos) /\ IsPayment(r)
    BY <1>2, <2>1, <2>4, DecreaseResponse, DecreasePayment
  <2>7. fee \in Nat
    BY <2>4, RatesAre, MulBounds
  <2>8. pos.size < 0 => fee = 0
    <3>1. Params[p].liquidationFee \in Int
      BY RatesAre
    <3> QED BY <2>5, <3>1, NothingRealized
  <2> HIDE DEF fee
  <2>9. left \in PositionType /\ IsPosition(left) /\ left.size = r.pos.size
    <3> HIDE DEF r
    <3> QED BY <2>6, <2>7 DEF IsPayment, PositionType, IsPosition
  <2>10. PartOf(pos, left)
    <3>1. left = [DecreasePosition(m, amm, pos, quote, 0).pos EXCEPT !.margin = @ - fee]
      OBVIOUS
    <3>2. DecreasePosition(m, amm, pos, quote, 0).ok
      BY <1>2
    <3> HIDE DEF left, r, m, amm, pos
    <3> QED BY <1>2, <2>1, <2>4, <2>5, <2>7, <2>8, <3>1, <3>2, PartLeft
  <2> HIDE DEF r, left
  <2>11. IsStore(decreased)
    BY <2>6, <2>9, LiquidationTradeOK DEF StoreOK
  <2>12. decreased.positions = [s.positions EXCEPT ![p][t] = left]
    BY <2>1 DEF IsStore
  <2> HIDE DEF decreased, m, toFund, toLiquidator
  <2>13. u.positions = decreased.positions /\ IsStore(u)
    BY <2>11, DistributeNeutral DEF Neutral
  <2>14. Rewritten(s, u, p, t, left)
    <3> HIDE DEF u
    <3> QED BY <2>1, <2>12, <2>13 DEF IsStore, Rewritten
  <2> QED BY <2>10, <2>13, <2>14
<1> HIDE DEF r, u, can, left
<1>3. ASSUME can, r.ok, ~ (RoundInt(left.margin) < 0)
      PROVE  PartOf(pos, left) /\ Rewritten(s, LetOff(u, p, r.badDebt), p, t, left)
  BY <1>2, <1>3, LetOffNeutral DEF Neutral, Rewritten
<1> QED BY <1>1, <1>3

\* executeFullLiquidation
LEMMA FullLiquidationLeaves ==
    ASSUME NEW s, StoreOK(s), Funds(s), NEW p \in Pairs, NEW t \in Traders, NEW l \in Traders
    PROVE  \/ FullLiquidation(s, p, t, l).store = s
           \/ Rewritten(s, FullLiquidation(s, p, t, l).store, p, t, ZeroPosition)
<1> DEFINE m == s.markets[p]
           pos == s.positions[p][t]
           r == ClosePositionEntirely(m, s.amms[p], pos)
           fee == QuoInt(Mul(Params[p].liquidationFee, r.notional), 2)
           remaining == Abs(r.toVault)
           badDebt == RoundInt(r.badDebt + MaxDec(0, fee - remaining))
           toFund == RoundInt(MaxDec(0, remaining - fee))
           closed == [s EXCEPT !.amms[p] = r.amm, !.positions[p][t] = ZeroPosition]
           bad == r.badDebt + MaxDec(0, fee - remaining) > 0
           realized == IF bad THEN RealizeBadDebt(closed, p, m, badDebt) ELSE closed
           u == DistributeLiquidateRewards(realized, p, m, l, toFund, RoundInt(fee))
<1>1. \/ FullLiquidation(s, p, t, l).store = s
      \/ r.ok /\ FullLiquidation(s, p, t, l).store = u
  BY DEF FullLiquidation, Outcome
<1>2. ASSUME r.ok PROVE Rewritten(s, u, p, t, ZeroPosition)
  <2>1. IsStore(s) /\ Pool(s.amms[p]) /\ IsPosition(pos)
    BY DEF StoreOK, IsStore
  <2>2. IsResponse(r, s.amms[p], pos) /\ r.pos = ZeroPosition
    BY <1>2, <2>1, CloseResponse
  <2> HIDE DEF r, badDebt, toFund, fee, remaining
  <2>3. IsStore(closed)
    BY <2>2, ZeroIsPosition, LiquidationTradeOK DEF StoreOK
  <2>4. closed.positions = [s.positions EXCEPT ![p][t] = ZeroPosition]
    BY <2>1 DEF IsStore
  <2> HIDE DEF closed, bad, m
  <2>5. IsStore(realized) /\ realized.positions = closed.positions
    BY <2>3, RealizeNeutral DEF Neutral
  <2> HIDE DEF realized
  <2>6. u.positions = realized.positions
    BY <2>5, DistributeNeutral DEF Neutral
  <2> HIDE DEF u
  <2> QED BY <2>1, <2>4, <2>5, <2>6 DEF IsStore, Rewritten
<1> HIDE DEF r, u
<1> QED BY <1>1, <1>2

\* One request of a MultiLiquidate: the position is liquidated in part, or deleted,
\* or left alone; no other position changes.
Parted(s, p, t) == Liquidatable(s, p, t) /\ InPart(s, p, t)
\* liquidate
LEMMA LiquidateOneLeaves ==
    ASSUME NEW s, StoreOK(s), Funds(s), NEW p \in Pairs, NEW t \in Traders, NEW l \in Traders
    PROVE  \/ LiquidateOne(s, p, t, l).store = s
           \/ Rewritten(s, LiquidateOne(s, p, t, l).store, p, t, ZeroPosition)
           \/ /\ Parted(s, p, t)
              /\ \E q : /\ PartOf(s.positions[p][t], q)
                        /\ Rewritten(s, LiquidateOne(s, p, t, l).store, p, t, q)
<1>1. \/ LiquidateOne(s, p, t, l).store = s
      \/ Parted(s, p, t) /\ LiquidateOne(s, p, t, l) = PartialLiquidation(s, p, t, l)
      \/ LiquidateOne(s, p, t, l) = FullLiquidation(s, p, t, l)
  BY DEF LiquidateOne, Outcome, Parted
<1> QED BY <1>1, PartialLiquidationLeaves, FullLiquidationLeaves

\* A position that passes Position.Validate if it is stored
WellFormed(pos) == Sound(pos) /\ (pos.stored => pos.size # 0)

\* A margin that is not negative rounds to one that is not.
LEMMA SoundNearly ==
    ASSUME NEW pos, pos.margin \in Int, Sound(pos)
    PROVE  NearlyValid(pos)
BY RoundType DEF Sound, NearlyValid

\* A liquidation keeps every position nearly valid,
LEMMA LiquidateOneNearly ==
    ASSUME NEW s, StoreOK(s), Funds(s), NEW p \in Pairs, NEW t \in Traders, NEW l \in Traders,
           \A x \in Pairs, y \in Traders : NearlyValid(s.positions[x][y]),
           NEW x \in Pairs, NEW y \in Traders
    PROVE  NearlyValid(LiquidateOne(s, p, t, l).store.positions[x][y])
<1>1. NearlyValid(ZeroPosition)
  BY ZeroSound, TypedPosition, SoundNearly
<1>2. \A q : PartOf(s.positions[p][t], q) => NearlyValid(q)
  BY DEF PartOf, NearlyValid
<1> QED BY <1>1, <1>2, LiquidateOneLeaves DEF Rewritten

\* and well formed, with its size or none, unless a long is liquidated in part.
Inherits(s, u) ==
    \A x \in Pairs, y \in Traders :
        /\ u.positions[x][y].size \in {s.positions[x][y].size, 0}
        /\ WellFormed(s.positions[x][y]) => WellFormed(u.positions[x][y])
\* One request
LEMMA LiquidateOneInherits ==
    ASSUME NEW s, StoreOK(s), Funds(s), NEW p \in Pairs, NEW t \in Traders, NEW l \in Traders,
           ~ (s.positions[p][t].size > 0 /\ Parted(s, p, t))
    PROVE  Inherits(s, LiquidateOne(s, p, t, l).store)
<1> DEFINE pos == s.positions[p][t]
           u == LiquidateOne(s, p, t, l).store
<1>1. WellFormed(ZeroPosition) /\ ZeroPosition.size = 0
  BY ZeroSound DEF WellFormed, ZeroPosition
<1>2. pos.size \in Int
  BY TypedPosition DEF Funds
<1>3. ASSUME Parted(s, p, t), NEW q, PartOf(pos, q)
      PROVE  WellFormed(q) /\ q.size = pos.size
  <2>1. pos.size < 0
    BY <1>2, <1>3 DEF PartOf
  <2> HIDE DEF pos
  <2>2. q.size = pos.size /\ q.margin >= 0 /\ q.openNotional >= 0
    BY <1>3, <2>1 DEF PartOf
  <2> QED BY <1>2, <2>1, <2>2 DEF WellFormed, Sound
<1>4. \/ u = s
      \/ Rewritten(s, u, p, t, ZeroPosition)
      \/ Parted(s, p, t) /\ \E q : PartOf(pos, q) /\ Rewritten(s, u, p, t, q)
  BY LiquidateOneLeaves
<1> HIDE DEF u
<1>5. ASSUME NEW q, WellFormed(q), q.size \in {pos.size, 0}, Rewritten(s, u, p, t, q)
      PROVE  Inherits(s, u)
  <2> SUFFICES ASSUME NEW x \in Pairs, NEW y \in Traders
               PROVE  /\ u.positions[x][y].size \in {s.positions[x][y].size, 0}
                      /\ WellFormed(s.positions[x][y]) => WellFormed(u.positions[x][y])
    BY DEF Inherits
  <2>1. CASE x = p /\ y = t
    <3>1. u.positions[x][y] = q
      BY <1>5, <2>1 DEF Rewritten
    <3> QED BY <1>5, <2>1, <3>1
  <2>2. CASE ~ (x = p /\ y = t)
    <3>1. u.positions[x][y] = s.positions[x][y]
      BY <1>5, <2>2 DEF Rewritten
    <3> QED BY <3>1
  <2> QED BY <2>1, <2>2
<1>6. u = s => Inherits(s, u)
  BY DEF Inherits
<1>7. ASSUME Parted(s, p, t), NEW q, PartOf(pos, q), Rewritten(s, u, p, t, q)
      PROVE  Inherits(s, u)
  BY <1>3, <1>5, <1>7
<1>8. Rewritten(s, u, p, t, ZeroPosition) => Inherits(s, u)
  BY <1>1, <1>5
<1> HIDE DEF pos
<1>9. Inherits(s, u)
  BY <1>4, <1>6, <1>7, <1>8
<1> QED BY <1>9 DEF u

\* All the requests of a message
LEMMA OutcomesNearly ==
    ASSUME NEW s, StoreOK(s), Funds(s), NEW l \in Traders, NEW n \in Nat,
           NEW reqs \in [1..n -> [pair : Pairs, trader : Traders]], Len(reqs) = n,
           \A x \in Pairs, y \in Traders : NearlyValid(s.positions[x][y])
    PROVE  \A x \in Pairs, y \in Traders :
              NearlyValid(Outcomes(s, reqs, l)[n].store.positions[x][y])
<1> DEFINE g == CHOOSE after : IsOutcomes(after, s, reqs, l, n)
           All(u) == \A x \in Pairs, y \in Traders : NearlyValid(u.positions[x][y])
<1>1. IsOutcomes(g, s, reqs, l, n)
  BY OutcomesExist, Zenon
<1>2. Outcomes(s, reqs, l) = g
  BY Zenon DEF Outcomes, IsOutcomes
<1> HIDE DEF g
<1> DEFINE Bad == {i \in 0..n : ~ (/\ StoreOK(g[i].store) /\ Funds(g[i].store)
                                   /\ All(g[i].store))}
<1>3. ASSUME Bad # {} PROVE FALSE
  <2>1. PICK m \in Bad : \A k \in Bad : m <= k
    <3>1. Bad \subseteq Nat
      OBVIOUS
    <3> HIDE DEF Bad
    <3> QED BY <1>3, <3>1, LeastNatural
  <2>2. m # 0
    BY <1>1 DEF IsOutcomes, Outcome
  <2>3. StoreOK(g[m - 1].store) /\ Funds(g[m - 1].store) /\ All(g[m - 1].store)
    BY <2>1, <2>2
  <2>4. g[m] = LiquidateOne(g[m - 1].store, reqs[m].pair, reqs[m].trader, l)
    BY <1>1, <2>2 DEF IsOutcomes
  <2>5. reqs[m].pair \in Pairs /\ reqs[m].trader \in Traders
    BY <2>2
  <2>6. StoreOK(g[m].store) /\ Funds(g[m].store)
    BY <2>3, <2>4, <2>5, LiquidateOneOK, LiquidateOneFunds
  <2>7. All(g[m].store)
    BY <2>3, <2>4, <2>5, LiquidateOneNearly
  <2> QED BY <2>1, <2>6, <2>7
<1> QED BY <1>2, <1>3

\* The request sells a part of a long; one of the requests does.
SellsPart(s, req) == s.positions[req.pair][req.trader].size > 0 /\ Parted(s, req.pair, req.trader)
OneSellsPart(s, reqs, l) ==
    \E i \in 1..Len(reqs) : SellsPart(Outcomes(s, reqs, l)[i - 1].store, reqs[i])

\* All the requests of a message, none of which does
LEMMA OutcomesInherit ==
    ASSUME NEW s, StoreOK(s), Funds(s), NEW l \in Traders, NEW n \in Nat,
           NEW reqs \in [1..n -> [pair : Pairs, trader : Traders]], Len(reqs) = n,
           ~ OneSellsPart(s, reqs, l)
    PROVE  Inherits(s, Outcomes(s, reqs, l)[n].store)
<1> DEFINE g == CHOOSE after : IsOutcomes(after, s, reqs, l, n)
<1>1. IsOutcomes(g, s, reqs, l, n)
  BY OutcomesExist, Zenon
<1>2. Outcomes(s, reqs, l) = g
  BY Zenon DEF Outcomes, IsOutcomes
<1>3. \A i \in 1..n : ~ SellsPart(g[i - 1].store, reqs[i])
  BY <1>2, Zenon DEF OneSellsPart
<1> HIDE DEF g
<1> DEFINE Bad == {i \in 0..n : ~ (/\ StoreOK(g[i].store) /\ Funds(g[i].store)
                                   /\ Inherits(s, g[i].store))}
<1>4. ASSUME Bad # {} PROVE FALSE
  <2>1. PICK m \in Bad : \A k \in Bad : m <= k
    <3>1. Bad \subseteq Nat
      OBVIOUS
    <3> HIDE DEF Bad
    <3> QED BY <1>4, <3>1, LeastNatural
  <2>2. m # 0
    <3>1. g[0].store = s
      BY <1>1 DEF IsOutcomes, Outcome
    <3>2. Inherits(s, s)
      BY DEF Inherits
    <3> QED BY <2>1, <3>1, <3>2
  <2>3. m - 1 \in 0..n /\ m - 1 \notin Bad /\ m \in 1..n
    BY <2>1, <2>2
  <2> DEFINE v == g[m - 1].store
  <2>4. g[m] = LiquidateOne(v, reqs[m].pair, reqs[m].trader, l)
    <3>1. g[m] = LiquidateOne(g[m - 1].store, reqs[m].pair, reqs[m].trader, l)
      <4> HIDE DEF v
      <4> QED BY <1>1, <2>2 DEF IsOutcomes
    <3> QED BY <3>1, Zenon
  <2>5. StoreOK(v) /\ Funds(v) /\ Inherits(s, v)
    BY <2>3
  <2>6. reqs[m].pair \in Pairs /\ reqs[m].trader \in Traders
    BY <2>3
  <2>7. ~ SellsPart(v, reqs[m])
    BY <1>3, <2>3
  <2> HIDE DEF v
  <2>8. StoreOK(g[m].store) /\ Funds(g[m].store)
    BY <2>4, <2>5, <2>6, LiquidateOneOK, LiquidateOneFunds
  <2>9. Inherits(v, g[m].store)
    BY <2>4, <2>5, <2>6, <2>7, LiquidateOneInherits DEF SellsPart
  <2>10. Inherits(s, g[m].store)
    BY <2>5, <2>9 DEF Inherits
  <2> QED BY <2>1, <2>8, <2>10
<1> QED BY <1>2, <1>4

-----------------------------------------------------------------------------
(* The specification once more: positions. *)

\* MultiLiquidate is the last of the store its requests leave behind.
LEMMA MultiLiquidateIs ==
    ASSUME NEW l \in Liquidators, NEW reqs \in Requests, MultiLiquidate(l, reqs)
    PROVE  \E n \in Nat : /\ reqs \in [1..n -> [pair : Pairs, trader : Traders]]
                          /\ Len(reqs) = n
                          /\ l \in Traders
                          /\ positions' = Outcomes(Store, reqs, l)[n].store.positions
<1>1. PICK n \in 1..MaxRequests : reqs \in [1..n -> [pair : Pairs, trader : Traders]]
  BY DEF Requests
<1>2. n \in Nat /\ Len(reqs) = n
  BY <1>1
<1>3. l \in Traders
  BY InputAssumption
<1>4. positions' = Outcomes(Store, reqs, l)[n].store.positions
  BY <1>2 DEF MultiLiquidate, Commit
<1> QED BY <1>1, <1>2, <1>3, <1>4

\* The other steps, for positions whose open notional is not negative
Liquidation == \E l \in Liquidators, reqs \in Requests : MultiLiquidate(l, reqs)
\* They move positions.
LEMMA OthersMove ==
    ASSUME FInv, Notionals(positions), [Next]_vars, ~ Liquidation
    PROVE  AllMoved(positions, positions')
<1>1. ASSUME NEW t \in Traders, NEW p \in Pairs, NEW dir \in Directions,
             NEW quote \in QuoteAmounts, NEW lev \in Leverages, NEW limit \in BaseLimits,
             OpenPosition(t, p, dir, quote, lev, limit)
      PROVE  AllMoved(positions, positions')
  <2>1. quote \in Nat /\ lev \in Nat \ {0}
    BY InputAssumption
  <2> QED BY <1>1, <2>1, OpenPositionMoves
<1>2. ASSUME NEW t \in Traders, NEW p \in Pairs, ClosePosition(t, p)
      PROVE  AllMoved(positions, positions')
  BY <1>2, ClosePositionMoves
<1>3. ASSUME NEW t \in Traders, NEW p \in Pairs, NEW amt \in Margins,
             AddMargin(t, p, amt) \/ RemoveMargin(t, p, amt)
      PROVE  AllMoved(positions, positions')
  <2>1. amt \in Nat
    BY InputAssumption
  <2> QED BY <1>3, <2>1, AddMarginMoves, RemoveMarginMoves
<1>4. Idle => AllMoved(positions, positions')
  BY IdlePositions DEF AllMoved, Moved
<1> QED BY <1>1, <1>2, <1>3, <1>4 DEF Next, Idle, Liquidation

NInv == FInv /\ PositionsNearlyValid

\* It is inductive with the types and balances.
LEMMA InitNearly == Init => NInv
<1> SUFFICES ASSUME Init, NEW p \in Pairs, NEW t \in Traders
             PROVE  NearlyValid(positions[p][t])
  BY InitFunds DEF NInv, PositionsNearlyValid
<1>1. positions[p][t] = ZeroPosition
  BY DEF Init
<1> QED BY <1>1, ZeroSound, TypedPosition, SoundNearly

\* Every step keeps it.
LEMMA NextNearly == NInv /\ [Next]_vars => NInv'
<1> SUFFICES ASSUME NInv, [Next]_vars PROVE PositionsNearlyValid'
  BY NextFunds DEF NInv
<1>1. FInv /\ FInv' /\ Notionals(positions)
  BY NextFunds DEF NInv, PositionsNearlyValid, NearlyValid, Notionals
<1>2. CASE ~ Liquidation
  <2>1. AllMoved(positions, positions')
    BY <1>1, <1>2, OthersMove
  <2> SUFFICES ASSUME NEW p \in Pairs, NEW t \in Traders PROVE NearlyValid(positions'[p][t])
    BY DEF PositionsNearlyValid
  <2>2. positions'[p][t].margin \in Int
    <3>1. Funds(Store')
      BY <1>1 DEF FInv
    <3>2. positions'[p][t] \in PositionType
      BY <3>1 DEF Funds, Store
    <3> QED BY <3>2, TypedPosition
  <2>3. positions'[p][t] = positions[p][t] \/ Sound(positions'[p][t])
    BY <2>1 DEF AllMoved, Moved
  <2> QED BY <2>2, <2>3, SoundNearly DEF NInv, PositionsNearlyValid
<1>3. ASSUME NEW l \in Liquidators, NEW reqs \in Requests, MultiLiquidate(l, reqs)
      PROVE  PositionsNearlyValid'
  <2>1. PICK n \in Nat : /\ reqs \in [1..n -> [pair : Pairs, trader : Traders]]
                         /\ Len(reqs) = n
                         /\ l \in Traders
                         /\ positions' = Outcomes(Store, reqs, l)[n].store.positions
    BY <1>3, MultiLiquidateIs
  <2>2. StoreOK(Store) /\ Funds(Store) /\ Store.positions = positions
    BY <1>1, FInvFacts
  <2>3. \A x \in Pairs, y \in Traders : NearlyValid(Store.positions[x][y])
    BY <2>2 DEF NInv, PositionsNearlyValid
  <2>4. \A x \in Pairs, y \in Traders :
           NearlyValid(Outcomes(Store, reqs, l)[n].store.positions[x][y])
    BY <2>1, <2>2, <2>3, OutcomesNearly
  <2> QED BY <2>1, <2>4 DEF PositionsNearlyValid
<1> QED BY <1>2, <1>3 DEF Liquidation

\* Position.Validate holds of every position, up to half a coin of margin after a
\* liquidation in part and up to its size, for any sequence of trades, margin
\* changes, liquidations and funding: no handler leaves an open notional below
\* zero, or a margin that the event of a liquidation could not show as a coin.
THEOREM PositionsAlwaysNearlyValid == Spec => []PositionsNearlyValid
<1>1. NInv => PositionsNearlyValid
  BY DEF NInv
<1> QED BY <1>1, InitNearly, NextNearly, PTL DEF Spec

\* A step in which no long is liquidated in part.  (What such a liquidation leaves
\* may be an empty position or a margin just below zero, and rounding may turn a
\* part of everything into more than everything.)
NoPartOfLong ==
    \A l \in Liquidators, reqs \in Requests :
        MultiLiquidate(l, reqs) => ~ OneSellsPart(Store, reqs, l)
VInv == FInv /\ \A p \in Pairs, t \in Traders : WellFormed(positions[p][t])

\* Without one, liquidation leaves sizes as they were or at zero.
LEMMA MultiLiquidateInherits ==
    ASSUME FInv, NoPartOfLong, NEW l \in Liquidators, NEW reqs \in Requests,
           MultiLiquidate(l, reqs), NEW p \in Pairs, NEW t \in Traders
    PROVE  /\ positions'[p][t].size \in {positions[p][t].size, 0}
           /\ WellFormed(positions[p][t]) => WellFormed(positions'[p][t])
<1>1. PICK n \in Nat : /\ reqs \in [1..n -> [pair : Pairs, trader : Traders]]
                       /\ Len(reqs) = n
                       /\ l \in Traders
                       /\ positions' = Outcomes(Store, reqs, l)[n].store.positions
  BY MultiLiquidateIs
<1>2. StoreOK(Store) /\ Funds(Store) /\ Store.positions = positions
  BY FInvFacts
<1>3. ~ OneSellsPart(Store, reqs, l)
  BY DEF NoPartOfLong
<1>4. Inherits(Store, Outcomes(Store, reqs, l)[n].store)
  BY <1>1, <1>2, <1>3, OutcomesInherit
<1> QED BY <1>1, <1>2, <1>4 DEF Inherits

\* So every position stays valid.
LEMMA NextWellFormed == VInv /\ [Next]_vars /\ [NoPartOfLong]_vars => VInv'
<1> SUFFICES ASSUME VInv, [Next]_vars, [NoPartOfLong]_vars, NEW p \in Pairs, NEW t \in Traders
             PROVE  WellFormed(positions'[p][t])
  BY NextFunds DEF VInv
<1>1. FInv /\ Notionals(positions) /\ WellFormed(positions[p][t])
  BY DEF VInv, WellFormed, Sound, Notionals
<1>2. CASE UNCHANGED vars
  BY <1>1, <1>2 DEF vars
<1>3. CASE ~ Liquidation
  <2>1. AllMoved(positions, positions')
    BY <1>1, <1>3, OthersMove
  <2>2. Moved(positions[p][t], positions'[p][t])
    BY <2>1 DEF AllMoved
  <2> QED BY <1>1, <2>2 DEF Moved, Kin, WellFormed, ZeroPosition
<1>4. CASE Liquidation /\ NoPartOfLong
  BY <1>1, <1>4, MultiLiquidateInherits DEF Liquidation
<1> QED BY <1>2, <1>3, <1>4

\* The genesis has no positions.
LEMMA InitWellFormed == Init => VInv
<1> SUFFICES ASSUME Init, NEW p \in Pairs, NEW t \in Traders PROVE WellFormed(positions[p][t])
  BY InitFunds DEF VInv
<1>1. positions[p][t] = ZeroPosition
  BY DEF Init
<1> QED BY <1>1, ZeroSound DEF WellFormed, ZeroPosition

\* Position.Validate: no stored position is empty or has negative margin or notional.
PositionsValid ==
    \A p \in Pairs, t \in Traders :
        positions[p][t].stored => /\ positions[p][t].size # 0
                                  /\ positions[p][t].margin >= 0
                                  /\ positions[p][t].openNotional >= 0

\* Position.Validate holds of every stored position of a behaviour in which no long is
\* liquidated in part: trades, margin changes, whole liquidations, liquidations of
\* shorts, funding and changes of the pool leave no empty position and none with a
\* negative margin or open notional behind.
THEOREM PositionsStayValid == Spec /\ [][NoPartOfLong]_vars => []PositionsValid
<1>1. VInv => PositionsValid
  BY DEF VInv, WellFormed, Sound, PositionsValid
<1> QED BY <1>1, InitWellFormed, NextWellFormed, PTL DEF Spec

-----------------------------------------------------------------------------
(* Trades and liquidations judge a position alike. *)

\* The ratio both go by
LEMMA HealthType ==
    ASSUME NEW p \in Pairs, NEW amm, Pool(amm), NEW pos \in PositionType, NEW cpf \in Int,
           now \in Int, CanNotionalSpot(amm, pos), CanNotionalTWAP(p, pos)
    PROVE  HealthRatio(p, amm, pos, cpf) \in Int
<1> DEFINE value == MaxDec(PositionNotionalSpot(amm, pos), PositionNotionalTWAP(p, pos))
           equity == pos.margin + UnrealizedPnl(pos, value) - FundingPayment(pos, cpf)
<1>1. value \in Int
  <2>1. PositionNotionalSpot(amm, pos) \in Nat
    BY SpotNat
  <2>2. Params[p].lookback \in Nat /\ Abs(pos.size) \in Int
    BY InputAssumption, TypedPosition DEF Abs
  <2>3. PositionNotionalTWAP(p, pos) \in Int
    BY <2>2, SnapshotsAre, TwapBaseSwapType DEF PositionNotionalTWAP, CanNotionalTWAP
  <2> QED BY <2>1, <2>3 DEF MaxDec
<1> HIDE DEF value
<1>2. equity \in Int
  BY <1>1, PnlType, TypedPosition
<1>3. HealthRatio(p, amm, pos, cpf) = IF pos.size = 0 \/ value = 0 THEN 0 ELSE Quo(equity, value)
  BY DEF HealthRatio, MarginRatio, value
<1> HIDE DEF equity
<1> QED BY <1>1, <1>2, <1>3, QuoType

\* The position grew or changed sides.
Grew(old, new) == Abs(new) > Abs(old) \/ new * old < 0
\* A position that stays or is emptied did not grow.
LEMMA GrewNot ==
    ASSUME NEW old \in Int
    PROVE  ~ Grew(old, old) /\ ~ Grew(old, 0)
<1>1. old * old >= 0 /\ 0 * old = 0 /\ Abs(old) \in Nat /\ Abs(0) = 0
  BY DEF Abs
<1> QED BY <1>1 DEF Grew

\* OpenPosition: what is stored is what afterPositionUpdate judged.
LEMMA OpenPositionHealthy ==
    ASSUME FInv, NEW t \in Traders, NEW p \in Pairs, NEW dir,
           NEW quote \in Nat, NEW lev \in Nat \ {0}, NEW limit,
           OpenPosition(t, p, dir, quote, lev, limit), NEW x \in Pairs, NEW y \in Traders,
           Grew(positions[x][y].size, positions'[x][y].size)
    PROVE  ~ Liquidatable(StoreAfter, x, y)
<1> DEFINE r == OpenResponse(markets[p], amms[p], positions[p][t], dir, quote, lev, limit)
           u == AfterPositionUpdate(Store, p, t, r)
           cpf == markets[p].cpf
<1>1. r.ok /\ CanAfterPositionUpdate(Store, p, t, r) /\ Commit(u)
  BY DEF OpenPosition
<1>2. IsPayment(r)
  BY <1>1, FInvFacts, OpenPayment
<1>3. Pool(r.amm)
  <2> DEFINE m == markets[p]
             pos == positions[p][t]
             amm == amms[p]
  <2>1. Pool(amm) /\ IsPosition(pos) /\ OpenResponse(m, amm, pos, dir, quote, lev, limit).ok
    BY <1>1, FInvFacts, TypedPosition
  <2> HIDE DEF m, amm, pos
  <2>2. IsResponse(OpenResponse(m, amm, pos, dir, quote, lev, limit), amm, pos)
    BY <2>1, OpenResponseIs
  <2> QED BY <2>2 DEF IsResponse, m, amm, pos
<1> HIDE DEF r
<1>4. Updated(Store, u, p, t, r)
  BY FInvFacts, AfterPositionUpdated
<1> HIDE DEF u
<1>5. /\ amms'[p] = r.amm /\ markets'[p].cpf = cpf
      /\ \A a \in Pairs, b \in Traders :
            positions'[a][b] = IF a = p /\ b = t THEN Kept(positions[p][t], r)
                               ELSE positions[a][b]
  BY <1>1, <1>4, FInvFacts DEF Updated, Commit
<1>6. positions[x][y].size \in Int
  BY FInvFacts, TypedPosition
<1>7. x = p /\ y = t
  <2>1. CASE ~ (x = p /\ y = t)
    <3>1. positions'[x][y] = positions[x][y]
      BY <1>5, <2>1
    <3> QED BY <1>6, <3>1, GrewNot
  <2> QED BY <2>1
<1>8. positions'[p][t] = r.pos /\ r.pos.size # 0
  <2>1. positions'[p][t] = Kept(positions[p][t], r)
    BY <1>5
  <2>2. Kept(positions[p][t], r) # positions[p][t]
    BY <1>6, <1>7, <2>1, GrewNot
  <2>3. Kept(positions[p][t], r) # ZeroPosition
    <3>1. ZeroPosition.size = 0
      BY DEF ZeroPosition
    <3> QED BY <1>6, <1>7, <2>1, <3>1, GrewNot
  <2> QED BY <2>1, <2>2, <2>3 DEF Kept
<1>9. /\ CanNotionalSpot(r.amm, r.pos) /\ CanNotionalTWAP(p, r.pos)
      /\ HealthRatio(p, r.amm, r.pos, cpf) >= Params[p].maintenance
  <2>1. HealthyOrEmpty(p, r.amm, r.pos, cpf)
    BY <1>1, FInvFacts DEF CanAfterPositionUpdate
  <2> QED BY <1>8, <2>1 DEF HealthyOrEmpty
<1>10. HealthRatio(p, r.amm, r.pos, cpf) \in Int /\ Params[p].maintenance \in Int
  <2>1. r.pos \in PositionType /\ cpf \in Int /\ now \in Int
    BY <1>2, FInvFacts, BoundAssumption DEF IsPayment, MarketType, FInv, Bounded
  <2> HIDE DEF cpf
  <2> QED BY <1>3, <1>9, <2>1, HealthType, InputAssumption
<1>11. ~ (HealthRatio(p, r.amm, r.pos, cpf) < Params[p].maintenance)
  BY <1>9, <1>10
<1>12. /\ StoreAfter.positions[p][t] = r.pos /\ StoreAfter.amms[p] = r.amm
       /\ StoreAfter.markets[p].cpf = cpf
  BY <1>5, <1>8 DEF StoreAfter
<1> QED BY <1>7, <1>11, <1>12, Zenon DEF Liquidatable

\* What TradeLeavesHealthy says of a step
LeavesHealthy ==
    \A t \in Traders, p \in Pairs :
      (\/ Abs(positions'[p][t].size) > Abs(positions[p][t].size)
       \/ positions'[p][t].size * positions[p][t].size < 0)
         => \A s \in {StoreAfter} : ~ Liquidatable(s, p, t)

\* A position that has just grown or changed sides cannot be liquidated by the next
\* message, for any market, pool, TWAP, funding and history, unless it grew because a
\* long was liquidated in part: otherwise only OpenPosition makes a position grow, and
\* what it stores is what afterPositionUpdate judged, by the ratio liquidate goes by.
THEOREM GrownPositionsHealthy == Spec => [][NoPartOfLong => LeavesHealthy]_vars
<1>1. ASSUME NInv, Next, NoPartOfLong, NEW x \in Pairs, NEW y \in Traders,
             Grew(positions[x][y].size, positions'[x][y].size)
      PROVE  ~ Liquidatable(StoreAfter, x, y)
  <2>1. /\ FInv /\ Notionals(positions) /\ positions[x][y].size \in Int
        /\ ZeroPosition.size = 0
    <3>1. FInv /\ Notionals(positions)
      BY <1>1 DEF NInv, PositionsNearlyValid, NearlyValid, Notionals
    <3> QED BY <3>1, FInvFacts, TypedPosition DEF ZeroPosition
  <2>2. ASSUME positions'[x][y].size \in {positions[x][y].size, 0} PROVE FALSE
    BY <1>1, <2>1, <2>2, GrewNot
  <2>3. ASSUME NEW t \in Traders, NEW p \in Pairs, NEW dir \in Directions,
               NEW quote \in QuoteAmounts, NEW lev \in Leverages, NEW limit \in BaseLimits,
               OpenPosition(t, p, dir, quote, lev, limit)
        PROVE  ~ Liquidatable(StoreAfter, x, y)
    <3>1. quote \in Nat /\ lev \in Nat \ {0}
      BY InputAssumption
    <3> QED BY <1>1, <2>1, <2>3, <3>1, OpenPositionHealthy
  <2>4. ASSUME NEW t \in Traders, NEW p \in Pairs, ClosePosition(t, p) PROVE FALSE
    <3>1. positions'[x][y] \in {positions[x][y], ZeroPosition}
      BY <2>1, <2>4, ClosePositionMoves
    <3> QED BY <2>1, <2>2, <3>1
  <2>5. ASSUME NEW t \in Traders, NEW p \in Pairs, NEW amt \in Margins,
               AddMargin(t, p, amt) \/ RemoveMargin(t, p, amt)
        PROVE  FALSE
    <3>1. amt \in Nat
      BY InputAssumption
    <3>2. positions'[x][y].size = positions[x][y].size
      BY <2>1, <2>5, <3>1, AddMarginMoves, RemoveMarginMoves
    <3> QED BY <2>2, <3>2
  <2>6. ASSUME NEW l \in Liquidators, NEW reqs \in Requests, MultiLiquidate(l, reqs)
        PROVE  FALSE
    BY <1>1, <2>1, <2>2, <2>6, MultiLiquidateInherits
  <2>7. ~ Idle
    BY <2>2, IdlePositions
  <2> QED BY <1>1, <2>3, <2>4, <2>5, <2>6, <2>7 DEF Next, Idle
<1>2. NInv /\ [Next]_vars => [NoPartOfLong => LeavesHealthy]_vars
  <2> SUFFICES ASSUME NInv, Next, NoPartOfLong PROVE LeavesHealthy
    OBVIOUS
  <2> SUFFICES ASSUME NEW t \in Traders, NEW p \in Pairs,
                      Grew(positions[p][t].size, positions'[p][t].size)
               PROVE  ~ Liquidatable(StoreAfter, p, t)
    BY DEF Grew, LeavesHealthy
  <2> QED BY <1>1
<1> QED BY <1>2, InitNearly, NextNearly, PTL DEF Spec

\* So in a behaviour in which no long is liquidated in part no position that has just
\* grown or changed sides can be liquidated by the next message.
THEOREM TradesLeaveHealthy == Spec /\ [][NoPartOfLong]_vars => TradeLeavesHealthy
<1>1. [][LeavesHealthy]_vars => TradeLeavesHealthy
  BY DEF LeavesHealthy, TradeLeavesHealthy
<1> QED BY <1>1, GrownPositionsHealthy, PTL
=============================================================================
