----------------------------- MODULE PerpV2Twap -----------------------------
(***************************************************************************)
(* Time-weighted average prices over reserve snapshots                     *)
(* (x/perp/keeper/v2/twap.go).  The snapshots of a pair are a sequence of  *)
(* records [ts, amm] in the order of their store keys: ts increases        *)
(* strictly.                                                               *)
(***************************************************************************)
EXTENDS PerpV2Amm, PrefixSum, Sequences

\* The snapshots the descending scan reads: those not after the block, down to
\* and including the first one that is not after the lower limit.
Visited(snaps, now, lookback) ==
    {i \in DOMAIN snaps :
        /\ snaps[i].ts <= now
        /\ \A j \in DOMAIN snaps :
              (j > i /\ snaps[j].ts <= now) => snaps[j].ts > now - lookback}

\* Mutant: a snapshot taken before the window counts from when it was taken.
ElapsedUnclipped(snaps, i, now, lookback) ==
    LET prev == IF i + 1 \in DOMAIN snaps /\ snaps[i + 1].ts <= now
                THEN snaps[i + 1].ts ELSE now
    IN  prev - snaps[i].ts
\* For how long a visited snapshot was in force inside the window.
Elapsed(snaps, i, now, lookback) ==
    LET prev == IF i + 1 \in DOMAIN snaps /\ snaps[i + 1].ts <= now
                THEN snaps[i + 1].ts ELSE now
    IN  IF snaps[i].ts <= now - lookback
        THEN prev - (now - lookback)
        ELSE prev - snaps[i].ts

\* The average of price, a function on the visited snapshots.
CalcTwap(snaps, price, now, lookback) ==
    LET visited == Visited(snaps, now, lookback)
        time == [i \in visited |-> Elapsed(snaps, i, now, lookback)]
        weighted == [i \in visited |-> price[i] * time[i]]
    IN  IF \E i \in visited : visited = {i}
        THEN price[CHOOSE i \in visited : TRUE]
        ELSE QuoInt(SumOver(visited, weighted, Len(snaps)),
                    SumOver(visited, time, Len(snaps)))

\* getPriceWithSnapshot for the options SPOT and BASE_ASSET_SWAP.
SnapshotSpot(amm) == Quo(Mul(amm.quote, amm.peg), amm.base)
SnapshotBaseSwap(amm, b, dir) ==
    FromQuoteReserveToAsset(amm, GetQuoteReserveAmt(amm, b, dir))

CanTwapSpot(snaps, now, lookback) == Visited(snaps, now, lookback) # {}
TwapSpot(snaps, now, lookback) ==
    CalcTwap(snaps,
             [i \in Visited(snaps, now, lookback) |-> SnapshotSpot(snaps[i].amm)],
             now, lookback)

CanTwapBaseSwap(snaps, b, dir, now, lookback) ==
    /\ Visited(snaps, now, lookback) # {}
    /\ \A i \in Visited(snaps, now, lookback) :
          CanGetQuoteReserveAmt(snaps[i].amm, b, dir)
TwapBaseSwap(snaps, b, dir, now, lookback) ==
    CalcTwap(snaps,
             [i \in Visited(snaps, now, lookback) |->
                 SnapshotBaseSwap(snaps[i].amm, b, dir)],
             now, lookback)

-----------------------------------------------------------------------------
(* What the scan is meant to compute. *)

\* The snapshot in force at time t: the newest one not after t.
InForce(snaps, t) ==
    {i \in DOMAIN snaps :
        /\ snaps[i].ts <= t
        /\ \A j \in DOMAIN snaps : snaps[j].ts <= t => j <= i}
PriceAt(snaps, price, t) == price[CHOOSE i \in InForce(snaps, t) : TRUE]

\* The k-th instant of the window, and those at which some price was in force.
Instant(now, lookback, k) == now - lookback + (k - 1)
Covered(snaps, now, lookback) ==
    {k \in 1..lookback : InForce(snaps, Instant(now, lookback, k)) # {}}

\* The price in force at each instant of the window, averaged over the part that
\* the snapshots cover; where they cover none of it, the price in force now.
Average(snaps, price, now, lookback) ==
    LET covered == Covered(snaps, now, lookback)
        prices == [k \in covered |-> PriceAt(snaps, price, Instant(now, lookback, k))]
    IN  IF covered = {} THEN PriceAt(snaps, price, now)
        ELSE QuoInt(SumOver(covered, prices, lookback),
                    SumOver(covered, [k \in covered |-> 1], lookback))
=============================================================================
