----------------------------- MODULE Stablecoin -----------------------------
(***************************************************************************)
(* The stablecoin (x/stablecoin), composed with the clocks of x/epochs.    *)
(* NUSD is minted and burned against a mixture of collateral (USDC) and    *)
(* governance tokens (NIBI); the mixture, the collateral ratio, moves by a *)
(* step when an epoch ends with the price outside its band.  Traders bring *)
(* the collateral the module holds back to the ratio with Recollateralize  *)
(* and Buyback.                                                            *)
(*                                                                         *)
(* The oracle is external.  Its EndBlocker runs after this module's and     *)
(* alone writes rates and snapshots, so a block sees the rates of the      *)
(* block before; the average is taken at the block's time over the         *)
(* snapshots of earlier blocks, so it is one value throughout a block and  *)
(* another, or missing, in the next.  So is the bank: a message whose      *)
(* transfers it refuses leaves no trace.                                   *)
(*                                                                         *)
(* The messages carry a coin, and no handler looks at its denomination:    *)
(* what a message mints, takes or burns is the token it names, while the   *)
(* amounts are computed as for the token its field is called after.        *)
(***************************************************************************)
EXTENDS Epochs, SdkDec

CONSTANTS
    Million,               \* parameters are stored in parts of Million, which
                           \* divides Scale (10^6 and 10^18 in the program)
    FeeRatio, EfFeeRatio, BonusRateRecoll, AdjustmentStep,
    PriceLowerBound, PriceUpperBound,
    GenesisCollRatio,
    DistrEpochIdentifier,  \* the identifier the hook listens to
    OtherTokens,           \* denominations the module does not know
    Readings,              \* what the oracle may say: the rates of USDC:NUSD
                           \* and NIBI:NUSD
    Averages,              \* and the average of the first
    Amounts,               \* amounts of the messages
    GenesisFunds,          \* what the traders hold of each token
    MaxTxs                 \* bound on the messages

Missing == -1              \* the oracle returns an error

ASSUME StablecoinAssumption ==
    /\ Million \in Nat \ {0} /\ Scale % Million = 0
    /\ {FeeRatio, EfFeeRatio, BonusRateRecoll, AdjustmentStep, PriceLowerBound,
        GenesisCollRatio} \subseteq 0..Million
    /\ PriceUpperBound \in 0..(2 * Million)
    /\ Readings \subseteq [{"coll", "gov"} -> (Nat \ {0}) \cup {Missing}]
    /\ Averages \subseteq (Nat \ {0}) \cup {Missing}
    /\ Amounts \subseteq Nat /\ GenesisFunds \in Nat /\ MaxTxs \in Nat

VARIABLES
    collRatio,   \* CollRatio
    valid,       \* IsCollateralRatioValid
    bank,        \* account -> token -> Nat
    rates,       \* the oracle: [coll, gov]
    average,     \* GetExchangeRateTwap as of the time of the last block
    phase,       \* "txs" inside a block, "between" after its EndBlocker
    history      \* read by no handler

stableVars == <<collRatio, valid, bank, rates, average, phase, history>>
vars == <<epochVars, stableVars>>

(***************************************************************************)
(* history.txs:   messages that were executed, for the bound MaxTxs        *)
(* history.moves: changes of the ratio since the block began               *)
(***************************************************************************)

Accounts == {"traders", "stablecoin", "stableEF", "treasury"}
Tokens == {"coll", "gov", "stable"} \cup OtherTokens

Supply(b, token) ==
    b["traders"][token] + b["stablecoin"][token] + b["stableEF"][token] + b["treasury"][token]

(* The bank: coins are minted into and burned from the module's account.   *)
MintTo(b, a, token, amt) == [b EXCEPT ![a][token] = @ + amt]
Burn(b, a, token, amt) == [b EXCEPT ![a][token] = @ - amt]
Send(b, from, to, token, amt) == MintTo(Burn(b, from, token, amt), to, token, amt)

TruncateInt(d) == Quot(d, Scale)

\* GetFeeRatioAsDec and the like: a stored parameter as a decimal.
AsDec(p) == Quo(ToDec(p), ToDec(Million))

(***************************************************************************)
(* The collateral ratio                                                    *)
(***************************************************************************)

GetCollRatio == QuoInt(ToDec(collRatio), Million)

CanSetCollRatio(d) == 0 <= d /\ d <= One
SetCollRatio(d) == RoundInt(Mul(d, ToDec(Million)))

\* updateCollRatio: the ratio a step away, down when the price is up
MovedRatio(isPriceUp) ==
    GetCollRatio + (IF isPriceUp THEN -AsDec(AdjustmentStep) ELSE AsDec(AdjustmentStep))

\* The average asks for a step down, a step up.
StepDown(twap) == twap # Missing /\ twap <= AsDec(PriceLowerBound)
StepUp(twap) == twap # Missing /\ twap > AsDec(PriceLowerBound)
                               /\ twap >= AsDec(PriceUpperBound)

\* EvaluateCollRatio: the error it returns, and the ratio it leaves.
Evaluates(twap) ==
    /\ twap # Missing
    /\ StepDown(twap) => CanSetCollRatio(MovedRatio(TRUE))
    /\ StepUp(twap) => CanSetCollRatio(MovedRatio(FALSE))
EvaluateCollRatio(twap) ==
    IF ~Evaluates(twap) THEN collRatio
    ELSE IF StepDown(twap) THEN SetCollRatio(MovedRatio(TRUE))
    ELSE IF StepUp(twap) THEN SetCollRatio(MovedRatio(FALSE))
    ELSE collRatio

Moves(r) == IF r = collRatio THEN 0 ELSE 1

(***************************************************************************)
(* Minting and burning                                                     *)
(***************************************************************************)

\* calcNeededCollateralAndFees, calcNeededGovAndFees
Needed(stable, ratio, price) == TruncateInt(Quo(Mul(ToDec(stable), ratio), price))
FeeOn(amt) == RoundInt(Mul(ToDec(amt), AsDec(FeeRatio)))

NeededColl(stable) == Needed(stable, AsDec(collRatio), rates.coll)
NeededGov(stable) == Needed(stable, One - AsDec(collRatio), rates.gov)

\* splitAndSendFeesToEfAndTreasury: the fund's part of the governance tokens is
\* burned.
SplitAndSendFees(b, collFee, govFee) ==
    LET ef(fee) == TruncateInt(Mul(ToDec(fee), AsDec(EfFeeRatio)))
        paid == Send(Send(b, "traders", "stableEF", "gov", ef(govFee)),
                     "traders", "stableEF", "coll", ef(collFee))
    IN  Send(Send(Burn(paid, "stableEF", "gov", ef(govFee)),
                  "traders", "treasury", "coll", collFee - ef(collFee)),
             "traders", "treasury", "gov", govFee - ef(govFee))

Executed(b) ==
    /\ bank' = b
    /\ history' = [history EXCEPT !.txs = @ + 1]
    /\ UNCHANGED <<epochVars, collRatio, valid, rates, average, phase>>

InBlock == phase = "txs" /\ history.txs < MaxTxs

MintStable(token, stable) ==
    LET coll == NeededColl(stable)
        gov == NeededGov(stable)
        taken == Send(Send(bank, "traders", "stablecoin", "coll", coll),
                      "traders", "stablecoin", "gov", gov)
        charged == SplitAndSendFees(Burn(taken, "stablecoin", "gov", gov),
                                    FeeOn(coll), FeeOn(gov))
    IN  /\ InBlock
        /\ valid
        /\ Missing \notin {rates.coll, rates.gov}
        /\ bank["traders"]["coll"] >= coll + FeeOn(coll)
        /\ bank["traders"]["gov"] >= gov + FeeOn(gov)
        /\ Executed(Send(MintTo(charged, "stablecoin", token, stable),
                         "stablecoin", "traders", token, stable))

\* The comparison that should refuse a zero amount compares two pointers and
\* never does.
BurnStable(token, stable) ==
    LET coll == NeededColl(stable)
        gov == NeededGov(stable)
        minted == Send(MintTo(bank, "stablecoin", "gov", gov),
                       "traders", "stablecoin", token, stable)
        redeemed == Send(Send(minted, "stablecoin", "traders", "coll", coll),
                         "stablecoin", "traders", "gov", gov)
        charged == SplitAndSendFees(redeemed, FeeOn(coll), FeeOn(gov))
    IN  /\ InBlock
        /\ valid
        /\ Missing \notin {rates.coll, rates.gov}
        /\ bank["traders"][token] >= stable
        /\ bank["stablecoin"]["coll"] >= coll
        /\ Executed(Burn(charged, "stablecoin", token, stable))

(***************************************************************************)
(* Recollateralize and Buyback                                             *)
(***************************************************************************)

\* StableRequiredForTargetCollRatio: what the module's collateral lacks, in NUSD.
StableRequired(b, ratio, price) ==
    ratio * Supply(b, "stable") - price * b["stablecoin"]["coll"]

\* Its callers drop its error and take zero.
StableRequiredNow ==
    IF rates.coll = Missing THEN 0 ELSE StableRequired(bank, GetCollRatio, rates.coll)

\* Mutant: the sign of the shortfall is not turned.
BuybackOfShortfall == CeilInt(Quo(StableRequiredNow, rates.gov))

\* RecollateralizeCollAmtForTargetCollRatio, BuybackGovAmtForTargetCollRatio
RecollateralizeCollAmt == CeilInt(Quo(StableRequiredNow, rates.coll))
BuybackGovAmt == CeilInt(Quo(-StableRequiredNow, rates.gov))

GovAmtFromRecollateralize(inUSD) ==
    TruncateInt(Quo(Mul(inUSD, One + AsDec(BonusRateRecoll)), rates.gov))

CollAmtFromBuyback(valUSD) == TruncateInt(Quo(valUSD, rates.coll))

Recollateralize(token, amt) ==
    LET needed == RecollateralizeCollAmt
        in == MinDec(amt, needed)
        out == GovAmtFromRecollateralize(rates.coll * in)
        paid == Send(bank, "traders", "stablecoin", token, in)
    IN  /\ InBlock
        /\ Missing \notin {rates.coll, rates.gov}
        /\ needed > 0 /\ amt > 0
        /\ bank["traders"][token] >= in
        /\ Executed(Send(MintTo(paid, "stablecoin", "gov", out),
                         "stablecoin", "traders", "gov", out))

Buyback(token, amt) ==
    LET needed == BuybackGovAmt
        in == MinDec(amt, needed)
        out == CollAmtFromBuyback(rates.gov * in)
        burned == Burn(Send(bank, "traders", "stablecoin", token, in),
                       "stablecoin", token, in)
    IN  /\ InBlock
        /\ Missing \notin {rates.coll, rates.gov}
        /\ needed > 0 /\ amt > 0
        /\ bank["traders"][token] >= in
        /\ bank["stablecoin"]["coll"] >= out
        /\ Executed(Send(burned, "stablecoin", "traders", "coll", out))

(***************************************************************************)
(* Blocks                                                                  *)
(***************************************************************************)

\* Mutant: the ratio is evaluated in every block.
EndBlockerAlways ==
    /\ collRatio' = EvaluateCollRatio(average)
    /\ valid' = Evaluates(average)
    /\ history' = [history EXCEPT !.moves = @ + Moves(collRatio')]

\* Mutant: a ratio that is valid stays so without an average.
EndBlockerKeepsValid ==
    /\ IF valid
       THEN UNCHANGED <<collRatio, valid>>
       ELSE collRatio' = EvaluateCollRatio(average) /\ valid' = Evaluates(average)
    /\ history' = [history EXCEPT !.moves = @ + Moves(collRatio')]

\* EndBlocker: tries to recover, and closes without an average.
EndBlocker ==
    /\ IF valid
       THEN /\ valid' = (average # Missing)
            /\ UNCHANGED collRatio
       ELSE /\ collRatio' = EvaluateCollRatio(average)
            /\ valid' = Evaluates(average)
    /\ history' = [history EXCEPT !.moves = @ + Moves(collRatio')]

\* The EndBlockers in the app's order: this module's, then the oracle's.
EndBlock(new) ==
    /\ phase = "txs"
    /\ phase' = "between"
    /\ EndBlocker
    /\ rates' = new
    /\ UNCHANGED <<epochVars, bank, average>>

\* The hook, with the average as it is in the block that begins.
AfterEpochEnd(twap) ==
    /\ collRatio' = EvaluateCollRatio(twap)
    /\ valid' = Evaluates(twap)
    /\ history' = [history EXCEPT !.moves = Moves(collRatio')]

BeginBlock(dt, twap) ==
    /\ phase = "between"
    /\ phase' = "txs"
    /\ BeginBlocker(dt)
    /\ average' = twap
    /\ IF DistrEpochIdentifier \in EpochEnds(epochs, time')
       THEN AfterEpochEnd(twap)
       ELSE /\ history' = [history EXCEPT !.moves = 0]
            /\ UNCHANGED <<collRatio, valid>>
    /\ UNCHANGED <<bank, rates>>

\* ExportGenesis and InitGenesis: the bank restores its own balances, and the
\* governance tokens of the module's account are minted once more.
Restart(dt) ==
    /\ phase = "between"
    /\ RestartEpochs(dt)
    /\ bank' = MintTo(bank, "stablecoin", "gov", bank["stablecoin"]["gov"])
    /\ UNCHANGED <<collRatio, valid, rates, average, phase, history>>

Init ==
    /\ EpochsInit
    /\ collRatio = GenesisCollRatio
    /\ valid = FALSE
    /\ bank = [a \in Accounts |-> [t \in Tokens |->
                  IF a = "traders" /\ t \in {"coll", "gov"} THEN GenesisFunds ELSE 0]]
    /\ rates = [coll |-> Missing, gov |-> Missing]
    /\ average = Missing
    /\ phase = "between"
    /\ history = [txs |-> 0, moves |-> 0]

Next ==
    \/ \E token \in Tokens, amt \in Amounts :
          \/ MintStable(token, amt)
          \/ BurnStable(token, amt)
          \/ Recollateralize(token, amt)
          \/ Buyback(token, amt)
    \/ \E new \in Readings : EndBlock(new)
    \/ \E dt \in 0..MaxStep, twap \in Averages : BeginBlock(dt, twap)
    \/ \E dt \in 0..MaxStep : Restart(dt)

Spec == Init /\ [][Next]_vars

(***************************************************************************)
(* Properties                                                              *)
(***************************************************************************)

\* The state has its type; in particular the ratio never leaves 0..1 and no
\* account is ever overdrawn.
TypeOK ==
    /\ EpochsTypeOK
    /\ collRatio \in 0..Million
    /\ valid \in BOOLEAN
    /\ bank \in [Accounts -> [Tokens -> Nat]]
    /\ phase \in {"txs", "between"}

\* When a block has ended minting and burning are open exactly when the average
\* this block saw was there and the ratio could follow it: they close only when
\* the average is missing or asks for a step past 0 or 1, and reopen in the first
\* block where neither holds, whichever of the hook and the EndBlocker meets it
\* first (EndBlocker, AfterEpochEnd).  What the oracle's EndBlocker writes after
\* them counts from the next block on.
ValidityExplained ==
    phase = "between" /\ height > 0 =>
        /\ valid => average # Missing
        /\ ~valid =>
              \/ average = Missing
              \/ StepDown(average) /\ collRatio < AdjustmentStep
              \/ StepUp(average) /\ collRatio + AdjustmentStep > Million

\* The ratio stays in 0..1 (TypeOK) and moves at most once in a block, although
\* both the epoch hook and the EndBlocker evaluate it.
OneMovePerBlock == TypeOK /\ history.moves <= 1

\* A message that carries the coin its field is called after (NUSD to mint and to
\* burn, collateral to Recollateralize, governance tokens to Buyback).
DocumentedMessage ==
    \E amt \in Amounts :
        \/ MintStable("stable", amt) \/ BurnStable("stable", amt)
        \/ Recollateralize("coll", amt) \/ Buyback("gov", amt)

\* No such message makes the protocol more under-collateralised than it was, or
\* was allowed to be, by more than the value of one coin (minting truncates what
\* it takes and Buyback rounds up what it buys, each by less than a coin), and
\* Recollateralize, which mints governance tokens for collateral, stops at
\* the target, up to a coin: no bonus is paid for collateral that is not needed.
\* It holds after any messages, also ones that carry another coin, of which
\* nothing of the kind is true: no handler checks the denomination.
CollateralOnTarget ==
    [][ LET before == StableRequired(bank, GetCollRatio, rates.coll)
            after == StableRequired(bank', GetCollRatio, rates.coll)
        IN  /\ DocumentedMessage =>
                  after <= MaxDec(before, 0) + MaxDec(rates.coll, rates.gov)
            /\ (\E amt \in Amounts : Recollateralize("coll", amt)) =>
                  after > -rates.coll
      ]_vars
=============================================================================
