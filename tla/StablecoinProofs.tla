-------------------------- MODULE StablecoinProofs --------------------------
(***************************************************************************)
(* The stablecoin for any parameters, prices, amounts and block times: the *)
(* collateral ratio and the balances keep their types and the ratio moves  *)
(* at most once in a block (OneMovePerBlock), minting and burning close    *)
(* only for a reason (ValidityExplained), and no message that carries the  *)
(* coin it should makes the protocol more under-collateralised by more     *)
(* than a coin (CollateralOnTarget).                                       *)
(***************************************************************************)
EXTENDS Stablecoin, ArithmeticProofs

-----------------------------------------------------------------------------
(* Parameters.  They are stored in parts of Million; Unit is one part. *)

Unit == Scale \div Million

\* A part is a whole number of the smallest decimals.
LEMMA UnitIs == Unit \in Nat \ {0} /\ Scale = Million * Unit
<1>1. /\ Scale \in Nat \ {0} /\ Million \in Nat \ {0} /\ Scale % Million = 0
  BY ScaleAssumption, StablecoinAssumption
<1>2. Unit \in Nat /\ Scale = Million * Unit + (Scale % Million)
  BY <1>1, DivMod, Zenon DEF Unit
<1>3. Million * Unit \in Int
  BY <1>1, <1>2, Products
<1>4. Scale = Million * Unit
  BY <1>1, <1>2, <1>3
<1> QED BY <1>1, <1>2, <1>4

\* A stored parameter is converted to a decimal without loss.
LEMMA AsDecIs ==
    ASSUME NEW p \in Nat
    PROVE  AsDec(p) = p * Unit /\ AsDec(p) \in Nat
<1> DEFINE a == ToDec(p)
           b == ToDec(Million)
           q == Quo(a, b)
<1>1. /\ Scale \in Nat \ {0} /\ Million \in Nat \ {0} /\ Unit \in Nat \ {0}
      /\ Scale = Million * Unit
  BY ScaleAssumption, StablecoinAssumption, UnitIs
<1>2. a \in Nat /\ b \in Nat \ {0}
  BY <1>1 DEF ToDec
<1>3. a * Scale = b * (p * Unit)
  BY <1>1 DEF ToDec
<1> HIDE DEF a, b
<1>4. q \in Nat /\ 2 * (b * q) <= 2 * (a * Scale) + b /\ a * Scale < b * (q + 1)
  BY <1>2, QuoBounds
<1> HIDE DEF q
<1>5. p * Unit \in Nat
  BY <1>1
<1> DEFINE u == p * Unit
<1> HIDE DEF u
<1>6. b * u < b * (q + 1) /\ 2 * (b * q) <= 2 * (b * u) + b
  BY <1>3, <1>4 DEF u
<1>7. u \in Nat
  BY <1>5 DEF u
<1>8. u < q + 1
  BY <1>2, <1>4, <1>6, <1>7, Signs
<1>9. b * (2 * q) <= b * (2 * u + 1)
  BY <1>2, <1>4, <1>6, <1>7
<1>10. 2 * q <= 2 * u + 1
  BY <1>2, <1>4, <1>7, <1>9, Signs
<1>11. q = u
  BY <1>4, <1>7, <1>8, <1>10
<1> QED BY <1>5, <1>11 DEF q, a, b, u, AsDec

\* So is the collateral ratio.
LEMMA RatioIs ==
    ASSUME collRatio \in Nat
    PROVE  GetCollRatio = collRatio * Unit /\ GetCollRatio = AsDec(collRatio)
<1> DEFINE a == ToDec(collRatio)
           q == Quot(a, Million)
           u == collRatio * Unit
<1>1. /\ Million \in Nat \ {0} /\ Unit \in Nat \ {0} /\ Scale = Million * Unit
  BY StablecoinAssumption, UnitIs
<1>2. a \in Nat /\ a = Million * u /\ u \in Nat
  BY <1>1 DEF ToDec
<1> HIDE DEF a, u
<1>3. q \in Nat /\ Million * q <= a /\ a < Million * (q + 1)
  BY <1>1, <1>2, QuotBounds, Zenon
<1> HIDE DEF q
<1>4. q <= u /\ u < q + 1
  BY <1>1, <1>2, <1>3, Signs
<1>5. q = u
  BY <1>2, <1>3, <1>4
<1> QED BY <1>5, AsDecIs DEF q, a, u, GetCollRatio, QuoInt

\* A ratio in 0..1 is stored in 0..Million.
LEMMA StoredRatio ==
    ASSUME NEW d \in Int, CanSetCollRatio(d)
    PROVE  SetCollRatio(d) \in 0..Million
<1>1. Million \in Nat \ {0} /\ Scale \in Nat \ {0} /\ d \in Nat /\ d <= Scale
  BY StablecoinAssumption, ScaleAssumption DEF CanSetCollRatio, One
<1>2. Mul(d, ToDec(Million)) = Million * d
  BY <1>1, MulExact
<1> DEFINE n == Million * d
           q == ChopNat(n)
<1>3. n \in Nat /\ n <= Million * Scale /\ Million * Scale = Scale * Million
  BY <1>1
<1> HIDE DEF n
<1>4. q \in Nat /\ 2 * (Scale * q) <= 2 * n + Scale
  BY <1>3, ChopBounds
<1>5. SetCollRatio(d) = q
  BY <1>2, <1>3 DEF SetCollRatio, RoundInt, ChopPrecisionAndRound, n
<1> HIDE DEF q
<1>6. Scale * (2 * q) <= Scale * (2 * Million + 1)
  <2>1. /\ Scale * (2 * q) = 2 * (Scale * q)
        /\ Scale * (2 * Million + 1) = 2 * (Scale * Million) + Scale
        /\ Scale * q \in Int /\ Scale * Million \in Int
    BY <1>1, <1>4
  <2> QED BY <1>1, <1>3, <1>4, <2>1
<1>7. 2 * q <= 2 * Million + 1
  BY <1>1, <1>4, <1>6, Signs
<1> QED BY <1>1, <1>4, <1>5, <1>7

\* A step is refused only when it would leave 0..1 (updateCollRatio, SetCollRatio).
LEMMA StepRefused ==
    ASSUME collRatio \in 0..Million
    PROVE  /\ MovedRatio(TRUE) \in Int /\ MovedRatio(FALSE) \in Int
           /\ ~ CanSetCollRatio(MovedRatio(TRUE)) => collRatio < AdjustmentStep
           /\ ~ CanSetCollRatio(MovedRatio(FALSE)) => collRatio + AdjustmentStep > Million
<1> DEFINE c == collRatio
           s == AdjustmentStep
           M == Million
<1>1. /\ c \in Nat /\ c <= M /\ s \in Nat /\ M \in Nat \ {0}
      /\ Unit \in Nat \ {0} /\ Scale = M * Unit
  BY StablecoinAssumption, UnitIs
<1>2. MovedRatio(TRUE) = c * Unit - s * Unit /\ MovedRatio(FALSE) = c * Unit + s * Unit
  BY <1>1, RatioIs, AsDecIs DEF MovedRatio
<1> HIDE DEF c, s, M
<1> DEFINE U == Unit
           down == c - s
           up == c + s
<1>3. /\ c * U - s * U = U * down /\ c * U + s * U = U * up /\ M * U = U * M
      /\ U * down \in Int /\ U * up \in Int
  BY <1>1
<1>4. down \in Int /\ up \in Nat
  BY <1>1
<1>5. CanSetCollRatio(U * down) <=> 0 <= U * down /\ U * down <= U * M
  BY <1>1, <1>3 DEF CanSetCollRatio, One
<1>6. CanSetCollRatio(U * up) <=> 0 <= U * up /\ U * up <= U * M
  BY <1>1, <1>3 DEF CanSetCollRatio, One
<1>7. U * 0 = 0
  BY <1>1
<1>8. (U * down <= U * M <=> down <= M) /\ (U * 0 <= U * down <=> 0 <= down)
  BY <1>1, <1>4, Signs
<1>9. (U * up <= U * M <=> up <= M) /\ (U * 0 <= U * up <=> 0 <= up)
  BY <1>1, <1>4, Signs
<1>10. ~ CanSetCollRatio(U * down) => c < s
  BY <1>1, <1>5, <1>7, <1>8
<1>11. ~ CanSetCollRatio(U * up) => c + s > M
  BY <1>1, <1>4, <1>6, <1>7, <1>9
<1> QED BY <1>2, <1>3, <1>10, <1>11 DEF c, s, M

\* EvaluateCollRatio keeps the ratio in 0..1 and leaves it alone when it fails.
LEMMA EvaluatedRatio ==
    ASSUME collRatio \in 0..Million, NEW twap
    PROVE  /\ EvaluateCollRatio(twap) \in 0..Million
           /\ ~ Evaluates(twap) => EvaluateCollRatio(twap) = collRatio
<1>1. MovedRatio(TRUE) \in Int /\ MovedRatio(FALSE) \in Int
  BY StepRefused
<1>2. ASSUME Evaluates(twap), StepDown(twap)
      PROVE  EvaluateCollRatio(twap) \in 0..Million
  <2>1. EvaluateCollRatio(twap) = SetCollRatio(MovedRatio(TRUE))
    BY <1>2, Zenon DEF EvaluateCollRatio
  <2> QED BY <1>1, <1>2, <2>1, StoredRatio DEF Evaluates
<1>3. ASSUME Evaluates(twap), ~ StepDown(twap), StepUp(twap)
      PROVE  EvaluateCollRatio(twap) \in 0..Million
  <2>1. EvaluateCollRatio(twap) = SetCollRatio(MovedRatio(FALSE))
    BY <1>3, Zenon DEF EvaluateCollRatio
  <2> QED BY <1>1, <1>3, <2>1, StoredRatio DEF Evaluates
<1>4. (~ Evaluates(twap) \/ (~ StepDown(twap) /\ ~ StepUp(twap)))
        => EvaluateCollRatio(twap) = collRatio
  BY Zenon DEF EvaluateCollRatio
<1> QED BY <1>2, <1>3, <1>4

-----------------------------------------------------------------------------
(* The bank. *)

Banks == [Accounts -> [Tokens -> Int]]

\* c is b with amt more of a token in one account,
IsCredited(c, b, acc, token, amt) ==
    /\ c \in Banks
    /\ \A a \in Accounts, t \in Tokens :
          c[a][t] = IF a = acc /\ t = token THEN b[a][t] + amt ELSE b[a][t]

\* and with amt of it moved between two accounts.
IsSent(c, b, from, to, token, amt) ==
    /\ c \in Banks
    /\ \A a \in Accounts, t \in Tokens :
          c[a][t] = IF t # token THEN b[a][t]
                    ELSE IF a = from THEN b[a][t] - amt
                    ELSE IF a = to THEN b[a][t] + amt
                    ELSE b[a][t]

\* The accounts and tokens of the model.
LEMMA Names ==
    /\ "traders" \in Accounts /\ "stablecoin" \in Accounts
    /\ "stableEF" \in Accounts /\ "treasury" \in Accounts
    /\ "coll" \in Tokens /\ "gov" \in Tokens /\ "stable" \in Tokens
  BY DEF Accounts, Tokens

\* Minting credits one balance.
LEMMA MintToIs ==
    ASSUME NEW b \in Banks, NEW acc \in Accounts, NEW token \in Tokens, NEW amt \in Int
    PROVE  /\ IsCredited(MintTo(b, acc, token, amt), b, acc, token, amt)
           /\ MintTo(b, acc, token, amt) \in Banks
  BY DEF MintTo, Banks, IsCredited

\* Burning debits one balance.
LEMMA BurnIs ==
    ASSUME NEW b \in Banks, NEW acc \in Accounts, NEW token \in Tokens, NEW amt \in Int
    PROVE  /\ IsCredited(Burn(b, acc, token, amt), b, acc, token, -amt)
           /\ Burn(b, acc, token, amt) \in Banks
  BY DEF Burn, Banks, IsCredited

\* Sending debits one balance and credits another.
LEMMA SendIs ==
    ASSUME NEW b \in Banks, NEW from \in Accounts, NEW to \in Accounts, from # to,
           NEW token \in Tokens, NEW amt \in Int
    PROVE  /\ IsSent(Send(b, from, to, token, amt), b, from, to, token, amt)
           /\ Send(b, from, to, token, amt) \in Banks
<1> DEFINE m == Burn(b, from, token, amt)
           n == MintTo(m, to, token, amt)
<1>1. IsCredited(m, b, from, token, -amt)
  BY BurnIs, Zenon
<1> HIDE DEF m
<1>2. m \in Banks
  BY <1>1 DEF IsCredited
<1>3. IsCredited(n, m, to, token, amt)
  BY <1>2, MintToIs, Zenon
<1>4. Send(b, from, to, token, amt) = n
  BY DEF Send, m, n
<1> HIDE DEF n
<1>5. \A a \in Accounts, t \in Tokens : b[a][t] \in Int
  BY DEF Banks
<1> QED BY <1>1, <1>3, <1>4, <1>5 DEF IsCredited, IsSent

-----------------------------------------------------------------------------
(* Fees. *)

\* A share of at most one of an amount is at most the amount, truncated or rounded.
LEMMA ShareBounds ==
    ASSUME NEW amt \in Nat, NEW p \in 0..Million
    PROVE  /\ TruncateInt(Mul(ToDec(amt), AsDec(p))) \in 0..amt
           /\ RoundInt(Mul(ToDec(amt), AsDec(p))) \in 0..amt
<1> DEFINE n == amt * AsDec(p)
           q == Quot(n, Scale)
           r == ChopNat(n)
<1>1. /\ Scale \in Nat \ {0} /\ Million \in Nat \ {0} /\ Unit \in Nat \ {0}
      /\ Scale = Million * Unit /\ p \in Nat /\ p <= Million
  BY ScaleAssumption, StablecoinAssumption, UnitIs
<1>2. AsDec(p) = p * Unit /\ AsDec(p) \in Nat
  BY <1>1, AsDecIs
<1>3. AsDec(p) <= Scale
  <2>1. Unit * p <= Unit * Million
    BY <1>1, Signs
  <2> QED BY <1>1, <1>2, <2>1, Associate
<1>4. Mul(ToDec(amt), AsDec(p)) = n
  BY <1>2, MulExact
<1>5. n \in Nat /\ n <= Scale * amt
  BY <1>1, <1>2, <1>3
<1> HIDE DEF n
<1>6. q \in Nat /\ Scale * q <= n
  BY <1>1, <1>5, QuotBounds, Zenon
<1>7. r \in Nat /\ 2 * (Scale * r) <= 2 * n + Scale
  BY <1>5, ChopBounds, Zenon
<1>8. TruncateInt(n) = q /\ RoundInt(n) = r
  BY <1>5 DEF TruncateInt, RoundInt, ChopPrecisionAndRound
<1> HIDE DEF q, r
<1>9. Scale * amt \in Int /\ Scale * q \in Int /\ Scale * r \in Int
  BY <1>1, <1>6, <1>7, Products
<1>10. q <= amt
  BY <1>1, <1>5, <1>6, <1>9, Signs
<1>11. Scale * (2 * r) <= Scale * (2 * amt + 1)
  <2>1. Scale * (2 * r) = 2 * (Scale * r) /\ Scale * (2 * amt + 1) = 2 * (Scale * amt) + Scale
    BY <1>1, <1>7
  <2> QED BY <1>1, <1>5, <1>7, <1>9, <2>1
<1>12. 2 * r <= 2 * amt + 1
  BY <1>1, <1>7, <1>11, Signs
<1> QED BY <1>4, <1>6, <1>7, <1>8, <1>10, <1>12

\* A fee is at most the amount it is taken from.
LEMMA FeeBounds ==
    ASSUME NEW amt \in Nat
    PROVE  FeeOn(amt) \in 0..amt
<1>1. FeeRatio \in 0..Million
  BY StablecoinAssumption
<1> QED BY <1>1, ShareBounds, Zenon DEF FeeOn

\* The fees leave the traders, nothing of them reaches the module's account, and
\* the other two accounts lose nothing (splitAndSendFeesToEfAndTreasury).
IsSplit(c, b, collFee, govFee) ==
    /\ c \in Banks
    /\ c["traders"]["coll"] = b["traders"]["coll"] - collFee
    /\ c["traders"]["gov"] = b["traders"]["gov"] - govFee
    /\ \A t \in Tokens \ {"coll", "gov"} : c["traders"][t] = b["traders"][t]
    /\ \A t \in Tokens : c["stablecoin"][t] = b["stablecoin"][t]
    /\ \A a \in {"stableEF", "treasury"}, t \in Tokens : c[a][t] >= b[a][t]
    /\ \A a \in {"stableEF", "treasury"} : c[a]["stable"] = b[a]["stable"]

\* SplitAndSendFees sends what it was given.
LEMMA SplitIs ==
    ASSUME NEW b \in Banks, NEW collFee \in Nat, NEW govFee \in Nat
    PROVE  IsSplit(SplitAndSendFees(b, collFee, govFee), b, collFee, govFee)
<1> DEFINE ef(fee) == TruncateInt(Mul(ToDec(fee), AsDec(EfFeeRatio)))
           x == ef(collFee)
           y == ef(govFee)
<1>1. x \in 0..collFee /\ y \in 0..govFee
  <2>1. EfFeeRatio \in 0..Million
    BY StablecoinAssumption
  <2> QED BY <2>1, ShareBounds, Zenon
<1> DEFINE b1 == Send(b, "traders", "stableEF", "gov", y)
           b2 == Send(b1, "traders", "stableEF", "coll", x)
           b3 == Burn(b2, "stableEF", "gov", y)
           b4 == Send(b3, "traders", "treasury", "coll", collFee - x)
           b5 == Send(b4, "traders", "treasury", "gov", govFee - y)
<1>2. SplitAndSendFees(b, collFee, govFee) = b5
  BY Zenon DEF SplitAndSendFees
<1> HIDE DEF x, y
<1>3. x \in Int /\ y \in Int /\ collFee - x \in Int /\ govFee - y \in Int
  BY <1>1
<1>4. "traders" # "stableEF" /\ "traders" # "treasury"
  OBVIOUS
<1>5. IsSent(b1, b, "traders", "stableEF", "gov", y) /\ b1 \in Banks
  BY <1>3, <1>4, Names, SendIs, Zenon
<1> HIDE DEF b1
<1>6. IsSent(b2, b1, "traders", "stableEF", "coll", x) /\ b2 \in Banks
  BY <1>3, <1>4, <1>5, Names, SendIs, Zenon
<1> HIDE DEF b2
<1>7. IsCredited(b3, b2, "stableEF", "gov", -y) /\ b3 \in Banks
  BY <1>3, <1>6, Names, BurnIs, Zenon
<1> HIDE DEF b3
<1>8. IsSent(b4, b3, "traders", "treasury", "coll", collFee - x) /\ b4 \in Banks
  BY <1>3, <1>4, <1>7, Names, SendIs, Zenon
<1> HIDE DEF b4
<1>9. IsSent(b5, b4, "traders", "treasury", "gov", govFee - y) /\ b5 \in Banks
  BY <1>3, <1>4, <1>8, Names, SendIs, Zenon
<1> HIDE DEF b5
<1>10. \A a \in Accounts, t \in Tokens : b[a][t] \in Int
  BY DEF Banks
<1>11. \A a \in Accounts, t \in Tokens :
          b5[a][t] = IF a = "traders" /\ t = "coll" THEN b[a][t] - collFee
                     ELSE IF a = "traders" /\ t = "gov" THEN b[a][t] - govFee
                     ELSE IF a = "stableEF" /\ t = "coll" THEN b[a][t] + x
                     ELSE IF a = "treasury" /\ t = "coll" THEN b[a][t] + (collFee - x)
                     ELSE IF a = "treasury" /\ t = "gov" THEN b[a][t] + (govFee - y)
                     ELSE b[a][t]
  <2> TAKE a \in Accounts, t \in Tokens
  <2>1. b[a][t] \in Int
    BY <1>10
  <2>2. CASE t = "coll"
    BY <1>1, <1>5, <1>6, <1>7, <1>8, <1>9, <2>1, <2>2 DEF IsSent, IsCredited
  <2>3. CASE t = "gov"
    BY <1>1, <1>5, <1>6, <1>7, <1>8, <1>9, <2>1, <2>3 DEF IsSent, IsCredited
  <2>4. CASE t \notin {"coll", "gov"}
    BY <1>1, <1>5, <1>6, <1>7, <1>8, <1>9, <2>1, <2>4 DEF IsSent, IsCredited
  <2> QED BY <2>2, <2>3, <2>4
<1> QED BY <1>1, <1>2, <1>9, <1>10, <1>11 DEF Accounts, Tokens, IsSplit

-----------------------------------------------------------------------------
(* Amounts. *)

\* The truncated quotient of a value and a price: less than a coin is lost, and a
\* coin is gained only by the rounding of the last digit.
LEMMA TruncQuoBounds ==
    ASSUME NEW v \in Nat, NEW price \in Nat \ {0}, NEW n, n = TruncateInt(Quo(v, price))
    PROVE  /\ n \in Nat
           /\ v < price * (n + 1)
           /\ 2 * (Scale * (price * n)) <= 2 * (v * Scale) + price
<1> DEFINE q == Quo(v, price)
<1>1. q \in Nat /\ 2 * (price * q) <= 2 * (v * Scale) + price /\ v * Scale < price * (q + 1)
  BY QuoBounds, Zenon
<1> HIDE DEF q
<1>2. Scale \in Nat \ {0}
  BY ScaleAssumption
<1>3. n \in Nat /\ Scale * n <= q /\ q < Scale * (n + 1)
  <2>1. n = Quot(q, Scale)
    BY DEF TruncateInt, q
  <2> QED BY <1>1, <1>2, <2>1, QuotBounds, Zenon
<1>4. Scale * n \in Int /\ Scale * (n + 1) \in Int /\ price * (q + 1) \in Int /\ price * q \in Int
      /\ v * Scale \in Int /\ price * (n + 1) \in Int /\ price * n \in Int
  BY <1>1, <1>2, <1>3, Products
<1>5. v < price * (n + 1)
  <2>1. q + 1 <= Scale * (n + 1)
    BY <1>1, <1>3, <1>4
  <2>2. price * (q + 1) <= price * (Scale * (n + 1))
    BY <1>1, <1>4, <2>1, Signs
  <2>3. price * (Scale * (n + 1)) = Scale * (price * (n + 1))
    BY <1>2, <1>3, Associate
  <2>4. Scale * v < Scale * (price * (n + 1))
    BY <1>1, <1>2, <1>4, <2>2, <2>3, Associate, Products
  <2> QED BY <1>2, <1>4, <2>4, Signs
<1>6. 2 * (Scale * (price * n)) <= 2 * (v * Scale) + price
  <2>1. price * (Scale * n) <= price * q
    BY <1>1, <1>3, <1>4, Signs
  <2>2. price * (Scale * n) = Scale * (price * n)
    BY <1>2, <1>3, Associate
  <2>3. Scale * (price * n) \in Int
    BY <1>2, <1>4, Products
  <2> QED BY <1>1, <1>4, <2>1, <2>2, <2>3
<1> QED BY <1>3, <1>5, <1>6

\* The quotient rounded up: less than a coin is added.
LEMMA CeilQuoBounds ==
    ASSUME NEW v \in Nat, NEW price \in Nat \ {0}, NEW n, n = CeilInt(Quo(v, price))
    PROVE  /\ n \in Nat
           /\ 2 * (Scale * (price * n)) + price <= 2 * (v * Scale) + 2 * (Scale * price)
<1> DEFINE q == Quo(v, price)
<1>1. q \in Nat /\ 2 * (price * q) <= 2 * (v * Scale) + price
  BY QuoBounds, Zenon
<1>2. n \in Nat /\ Scale * n < q + Scale
  BY <1>1, CeilBounds, Zenon
<1> HIDE DEF q
<1>3. Scale \in Nat \ {0}
  BY ScaleAssumption
<1>4. Scale * n \in Int /\ price * q \in Int /\ v * Scale \in Int /\ price * n \in Int
      /\ Scale * price \in Int
  BY <1>1, <1>2, <1>3, Products
<1>5. Scale * n + 1 <= q + Scale
  BY <1>1, <1>2, <1>3, <1>4
<1>6. price * (Scale * n + 1) <= price * (q + Scale)
  BY <1>1, <1>3, <1>4, <1>5, Signs
<1>7. price * (Scale * n + 1) = Scale * (price * n) + price
  BY <1>2, <1>3, SMT
<1>8. price * (q + Scale) = price * q + Scale * price
  BY <1>1, <1>3, SMT
<1>9. Scale * (price * n) \in Int
  BY <1>3, <1>4, Products
<1> QED BY <1>1, <1>2, <1>4, <1>6, <1>7, <1>8, <1>9

-----------------------------------------------------------------------------
(* The invariant. *)

Prices == (Nat \ {0}) \cup {Missing}

\* A block in which the epoch hook moved the ratio has a valid ratio to the end, so
\* that the EndBlocker does not evaluate it again.
IInv ==
    /\ TypeOK
    /\ rates \in [{"coll", "gov"} -> Prices]
    /\ history \in [{"txs", "moves"} -> Nat]
    /\ history.moves <= 1
    /\ phase = "txs" /\ history.moves = 1 => valid

\* What the guards of a message establish.
LEMMA Guarded ==
    ASSUME IInv, Missing \notin {rates.coll, rates.gov}
    PROVE  /\ rates.coll \in Nat \ {0} /\ rates.gov \in Nat \ {0}
           /\ collRatio \in Nat /\ collRatio <= Million
           /\ bank \in Banks
           /\ \A a \in Accounts, t \in Tokens : bank[a][t] \in Nat
  BY StablecoinAssumption DEF IInv, TypeOK, Prices, Banks

\* What is asked for or paid out for an amount of stablecoins.
LEMMA NeededTypes ==
    ASSUME IInv, Missing \notin {rates.coll, rates.gov}, NEW stable \in Nat
    PROVE  /\ NeededColl(stable) \in Nat
           /\ NeededGov(stable) \in Nat
           /\ NeededColl(stable) = TruncateInt(Quo(stable * GetCollRatio, rates.coll))
<1>1. /\ rates.coll \in Nat \ {0} /\ rates.gov \in Nat \ {0}
      /\ collRatio \in Nat /\ collRatio <= Million
  BY Guarded
<1>2. /\ AsDec(collRatio) \in Nat /\ AsDec(collRatio) = collRatio * Unit
      /\ GetCollRatio = AsDec(collRatio)
  BY <1>1, AsDecIs, RatioIs
<1>3. One - AsDec(collRatio) \in Nat
  <2>1. /\ Million \in Nat /\ Unit \in Nat \ {0} /\ Scale = Million * Unit
    BY StablecoinAssumption, UnitIs
  <2>2. Unit * collRatio <= Unit * Million
    BY <1>1, <2>1, Signs
  <2>3. Unit * collRatio \in Int /\ Unit * Million \in Int
        /\ collRatio * Unit = Unit * collRatio /\ Million * Unit = Unit * Million
    BY <1>1, <2>1, Products, Associate
  <2> QED BY <1>2, <2>1, <2>2, <2>3 DEF One
<1>4. ASSUME NEW ratio \in Nat, NEW price \in Nat \ {0}
      PROVE  /\ Needed(stable, ratio, price) \in Nat
             /\ Needed(stable, ratio, price) = TruncateInt(Quo(stable * ratio, price))
  <2>1. Mul(ToDec(stable), ratio) = stable * ratio
    BY MulExact
  <2>2. stable * ratio \in Nat
    OBVIOUS
  <2>3. Needed(stable, ratio, price) = TruncateInt(Quo(stable * ratio, price))
    BY <2>1 DEF Needed
  <2> QED BY <2>2, <2>3, TruncQuoBounds
<1> QED BY <1>1, <1>2, <1>3, <1>4 DEF NeededColl, NeededGov

-----------------------------------------------------------------------------
(* Messages. *)

\* A message changes the balances, which stay natural numbers, and nothing else.
MessageOK == bank' \in [Accounts -> [Tokens -> Nat]]

\* Balances that are not negative are natural numbers.
LEMMA BankIsNat ==
    ASSUME NEW b \in Banks, \A a \in Accounts, t \in Tokens : b[a][t] >= 0
    PROVE  b \in [Accounts -> [Tokens -> Nat]]
  BY DEF Banks

\* Minting takes collateral and governance tokens and fees on both from the traders
\* and gives them the coin they asked for (MintStable).
LEMMA MintStableStep ==
    ASSUME IInv, NEW token \in Tokens, NEW stable \in Nat, MintStable(token, stable)
    PROVE  /\ MessageOK
           /\ bank'["stablecoin"]["coll"] = bank["stablecoin"]["coll"] + NeededColl(stable)
           /\ token = "stable" => Supply(bank', "stable") = Supply(bank, "stable") + stable
<1> DEFINE coll == NeededColl(stable)
           gov == NeededGov(stable)
           cf == FeeOn(coll)
           gf == FeeOn(gov)
           b1 == Send(bank, "traders", "stablecoin", "coll", coll)
           b2 == Send(b1, "traders", "stablecoin", "gov", gov)
           b3 == Burn(b2, "stablecoin", "gov", gov)
           b4 == SplitAndSendFees(b3, cf, gf)
           b5 == MintTo(b4, "stablecoin", token, stable)
           b6 == Send(b5, "stablecoin", "traders", token, stable)
<1>1. /\ Missing \notin {rates.coll, rates.gov}
      /\ bank["traders"]["coll"] >= coll + cf
      /\ bank["traders"]["gov"] >= gov + gf
      /\ bank' = b6
  BY Zenon DEF MintStable, Executed
<1>2. bank \in Banks /\ \A a \in Accounts, t \in Tokens : bank[a][t] \in Nat
  BY <1>1, Guarded
<1>3. coll \in Nat /\ gov \in Nat
  BY <1>1, NeededTypes
<1> HIDE DEF coll, gov
<1>4. cf \in Nat /\ gf \in Nat
  BY <1>3, FeeBounds
<1> HIDE DEF cf, gf
<1>5. coll \in Int /\ gov \in Int /\ stable \in Int /\ "traders" # "stablecoin"
  BY <1>3
<1>6. IsSent(b1, bank, "traders", "stablecoin", "coll", coll) /\ b1 \in Banks
  BY <1>2, <1>5, Names, SendIs, Zenon
<1> HIDE DEF b1
<1>7. IsSent(b2, b1, "traders", "stablecoin", "gov", gov) /\ b2 \in Banks
  BY <1>5, <1>6, Names, SendIs, Zenon
<1> HIDE DEF b2
<1>8. IsCredited(b3, b2, "stablecoin", "gov", -gov) /\ b3 \in Banks
  BY <1>5, <1>7, Names, BurnIs, Zenon
<1> HIDE DEF b3
<1>10. IsSplit(b4, b3, cf, gf)
  BY <1>4, <1>8, SplitIs, Zenon
<1> HIDE DEF b4
<1>9. /\ b4 \in Banks
      /\ b4["traders"]["coll"] = b3["traders"]["coll"] - cf
      /\ b4["traders"]["gov"] = b3["traders"]["gov"] - gf
      /\ \A t \in Tokens \ {"coll", "gov"} : b4["traders"][t] = b3["traders"][t]
      /\ \A t \in Tokens : b4["stablecoin"][t] = b3["stablecoin"][t]
      /\ \A a \in {"stableEF", "treasury"}, t \in Tokens : b4[a][t] >= b3[a][t]
      /\ \A a \in {"stableEF", "treasury"} : b4[a]["stable"] = b3[a]["stable"]
  BY <1>10 DEF IsSplit
<1>11. IsCredited(b5, b4, "stablecoin", token, stable) /\ b5 \in Banks
  BY <1>5, <1>9, Names, MintToIs, Zenon
<1> HIDE DEF b5
<1>12. IsSent(b6, b5, "stablecoin", "traders", token, stable) /\ b6 \in Banks
  BY <1>5, <1>11, Names, SendIs, Zenon
<1> HIDE DEF b6
<1>13. /\ b3["traders"]["coll"] = bank["traders"]["coll"] - coll
       /\ b3["traders"]["gov"] = bank["traders"]["gov"] - gov
       /\ \A t \in Tokens \ {"coll", "gov"} : b3["traders"][t] = bank["traders"][t]
       /\ b3["stablecoin"]["coll"] = bank["stablecoin"]["coll"] + coll
       /\ \A t \in Tokens \ {"coll"} : b3["stablecoin"][t] = bank["stablecoin"][t]
       /\ \A a \in {"stableEF", "treasury"}, t \in Tokens : b3[a][t] = bank[a][t]
  BY <1>2, <1>3, <1>6, <1>7, <1>8, Names DEF IsSent, IsCredited, Accounts
<1>14. /\ \A t \in Tokens :
             b6["traders"][t] = IF t = token THEN b4["traders"][t] + stable
                                ELSE b4["traders"][t]
       /\ \A a \in Accounts \ {"traders"}, t \in Tokens : b6[a][t] = b4[a][t]
  <2>1. \A a \in Accounts, t \in Tokens : b4[a][t] \in Int
    BY <1>9 DEF Banks
  <2> QED BY <1>11, <1>12, <2>1, Names DEF IsSent, IsCredited
<1>15. /\ \A t \in Tokens : b4["traders"][t] \in Int /\ b4["traders"][t] >= 0
       /\ \A t \in Tokens : b4["stablecoin"][t] \in Int /\ b4["stablecoin"][t] >= 0
       /\ \A a \in {"stableEF", "treasury"}, t \in Tokens : b4[a][t] >= 0
  <2>1. b4["traders"]["coll"] >= 0 /\ b4["traders"]["gov"] >= 0
    BY <1>1, <1>2, <1>3, <1>4, <1>9, <1>13, Names
  <2>2. \A t \in Tokens \ {"coll", "gov"} : b4["traders"][t] >= 0
    BY <1>2, <1>9, <1>13, Names
  <2>3. \A a \in Accounts, t \in Tokens : b4[a][t] \in Int
    BY <1>9 DEF Banks
  <2>4. \A t \in Tokens : b4["stablecoin"][t] >= 0
    BY <1>2, <1>3, <1>9, <1>13, Names
  <2>5. \A a \in {"stableEF", "treasury"}, t \in Tokens : b4[a][t] >= 0
    BY <1>2, <1>9, <1>13, <2>3, Names
  <2> QED BY <2>1, <2>2, <2>3, <2>4, <2>5, Names
<1>17. \A a \in Accounts, t \in Tokens : b6[a][t] >= 0
  BY <1>14, <1>15 DEF Accounts
<1>19. MessageOK
  BY <1>1, <1>12, <1>17, BankIsNat DEF MessageOK
<1>20. ASSUME token = "stable"
       PROVE  Supply(b6, "stable") = Supply(bank, "stable") + stable
  <2>1. b6["traders"]["stable"] = bank["traders"]["stable"] + stable
    BY <1>9, <1>13, <1>14, <1>20, Names
  <2>2. \A a \in {"stablecoin", "stableEF", "treasury"} : b6[a]["stable"] = bank[a]["stable"]
    BY <1>9, <1>13, <1>14, Names
  <2> QED BY <1>2, <2>1, <2>2, Names DEF Supply
<1>21. b6["stablecoin"]["coll"] = bank["stablecoin"]["coll"] + coll
  BY <1>9, <1>13, <1>14, Names
<1> QED BY <1>1, <1>19, <1>20, <1>21 DEF coll

\* Burning gives back collateral and governance tokens, less fees (BurnStable).
LEMMA BurnStableStep ==
    ASSUME IInv, NEW token \in Tokens, NEW stable \in Nat, BurnStable(token, stable)
    PROVE  /\ MessageOK
           /\ bank'["stablecoin"]["coll"] = bank["stablecoin"]["coll"] - NeededColl(stable)
           /\ token = "stable" => Supply(bank', "stable") = Supply(bank, "stable") - stable
<1> DEFINE coll == NeededColl(stable)
           gov == NeededGov(stable)
           cf == FeeOn(coll)
           gf == FeeOn(gov)
           b0 == MintTo(bank, "stablecoin", "gov", gov)
           b1 == Send(b0, "traders", "stablecoin", token, stable)
           b2 == Send(b1, "stablecoin", "traders", "coll", coll)
           b3 == Send(b2, "stablecoin", "traders", "gov", gov)
           b4 == SplitAndSendFees(b3, cf, gf)
           b5 == Burn(b4, "stablecoin", token, stable)
<1>1. /\ Missing \notin {rates.coll, rates.gov}
      /\ bank["traders"][token] >= stable
      /\ bank["stablecoin"]["coll"] >= coll
      /\ bank' = b5
  BY Zenon DEF BurnStable, Executed
<1>2. bank \in Banks /\ \A a \in Accounts, t \in Tokens : bank[a][t] \in Nat
  BY <1>1, Guarded
<1>3. coll \in Nat /\ gov \in Nat
  BY <1>1, NeededTypes
<1> HIDE DEF coll, gov
<1>4. cf \in Nat /\ gf \in Nat /\ cf <= coll /\ gf <= gov
  BY <1>3, FeeBounds
<1> HIDE DEF cf, gf
<1>5. coll \in Int /\ gov \in Int /\ stable \in Int /\ "traders" # "stablecoin"
  BY <1>3
<1>6. IsCredited(b0, bank, "stablecoin", "gov", gov) /\ b0 \in Banks
  BY <1>2, <1>5, Names, MintToIs, Zenon
<1> HIDE DEF b0
<1>7. IsSent(b1, b0, "traders", "stablecoin", token, stable) /\ b1 \in Banks
  BY <1>5, <1>6, Names, SendIs, Zenon
<1> HIDE DEF b1
<1>8. IsSent(b2, b1, "stablecoin", "traders", "coll", coll) /\ b2 \in Banks
  BY <1>5, <1>7, Names, SendIs, Zenon
<1> HIDE DEF b2
<1>9. IsSent(b3, b2, "stablecoin", "traders", "gov", gov) /\ b3 \in Banks
  BY <1>5, <1>8, Names, SendIs, Zenon
<1> HIDE DEF b3
<1>11. IsSplit(b4, b3, cf, gf)
  BY <1>4, <1>9, SplitIs, Zenon
<1> HIDE DEF b4
<1>10. /\ b4 \in Banks
       /\ b4["traders"]["coll"] = b3["traders"]["coll"] - cf
       /\ b4["traders"]["gov"] = b3["traders"]["gov"] - gf
       /\ \A t \in Tokens \ {"coll", "gov"} : b4["traders"][t] = b3["traders"][t]
       /\ \A t \in Tokens : b4["stablecoin"][t] = b3["stablecoin"][t]
       /\ \A a \in {"stableEF", "treasury"}, t \in Tokens : b4[a][t] >= b3[a][t]
       /\ \A a \in {"stableEF", "treasury"} : b4[a]["stable"] = b3[a]["stable"]
  BY <1>11 DEF IsSplit
<1>12. IsCredited(b5, b4, "stablecoin", token, -stable) /\ b5 \in Banks
  BY <1>5, <1>10, Names, BurnIs, Zenon
<1> HIDE DEF b5
<1>13. /\ \A t \in Tokens :
             b1["traders"][t] = IF t = token THEN bank["traders"][t] - stable
                                ELSE bank["traders"][t]
       /\ \A t \in Tokens : b1["traders"][t] \in Int /\ b1["traders"][t] >= 0
  BY <1>1, <1>2, <1>6, <1>7, Names DEF IsSent, IsCredited
<1>14. /\ b3["traders"]["coll"] = b1["traders"]["coll"] + coll
       /\ b3["traders"]["gov"] = b1["traders"]["gov"] + gov
       /\ \A t \in Tokens \ {"coll", "gov"} : b3["traders"][t] = b1["traders"][t]
  BY <1>8, <1>9, <1>13, Names DEF IsSent
<1>15. \A t \in Tokens : b4["traders"][t] >= 0
  BY <1>3, <1>4, <1>10, <1>13, <1>14, Names
<1>16. \A t \in Tokens :
          b5["stablecoin"][t] = IF t = "coll" THEN bank["stablecoin"][t] - coll
                                ELSE bank["stablecoin"][t]
  <2> TAKE t \in Tokens
  <2>1. bank["stablecoin"][t] \in Int
    BY <1>2, Names
  <2>2. b4["stablecoin"][t] = b3["stablecoin"][t]
    BY <1>10
  <2>3. b5["stablecoin"][t] = IF t = token THEN b3["stablecoin"][t] - stable
                              ELSE b3["stablecoin"][t]
    <3>1. b3["stablecoin"][t] \in Int
      BY <1>9, Names DEF Banks
    <3> QED BY <1>12, <2>2, <3>1, Names DEF IsCredited
  <2>4. b1["stablecoin"][t] = IF t = token THEN b0["stablecoin"][t] + stable
                              ELSE b0["stablecoin"][t]
    BY <1>7, Names DEF IsSent
  <2>5. b0["stablecoin"][t] = IF t = "gov" THEN bank["stablecoin"][t] + gov
                              ELSE bank["stablecoin"][t]
    BY <1>6, Names DEF IsCredited
  <2>6. b3["stablecoin"][t] = IF t = "gov" THEN b1["stablecoin"][t] - gov
                              ELSE IF t = "coll" THEN b1["stablecoin"][t] - coll
                              ELSE b1["stablecoin"][t]
    BY <1>8, <1>9, Names DEF IsSent
  <2> QED BY <1>3, <2>1, <2>3, <2>4, <2>5, <2>6
<1>17. \A t \in Tokens : b5["stablecoin"][t] >= 0
  BY <1>1, <1>2, <1>3, <1>16, Names
<1>18. \A a \in {"stableEF", "treasury"}, t \in Tokens :
          b3[a][t] = bank[a][t] /\ b5[a][t] = b4[a][t] /\ b5[a][t] >= 0
  BY <1>2, <1>6, <1>7, <1>8, <1>9, <1>10, <1>12 DEF IsSent, IsCredited, Accounts, Banks
<1>19. \A t \in Tokens : b5["traders"][t] = b4["traders"][t]
  BY <1>12, Names DEF IsCredited
<1>20. MessageOK
  <2>1. \A a \in Accounts, t \in Tokens : b5[a][t] >= 0
    BY <1>15, <1>17, <1>18, <1>19 DEF Accounts
  <2> QED BY <1>1, <1>12, <2>1, BankIsNat DEF MessageOK
<1>21. ASSUME token = "stable"
       PROVE  Supply(b5, "stable") = Supply(bank, "stable") - stable
  <2>1. b5["traders"]["stable"] = bank["traders"]["stable"] - stable
    BY <1>10, <1>13, <1>14, <1>19, <1>21, Names
  <2>2. \A a \in {"stablecoin", "stableEF", "treasury"} : b5[a]["stable"] = bank[a]["stable"]
    BY <1>10, <1>16, <1>18, Names
  <2> QED BY <1>2, <2>1, <2>2, Names DEF Supply
<1>22. b5["stablecoin"]["coll"] = bank["stablecoin"]["coll"] - coll
  BY <1>16, Names
<1> QED BY <1>1, <1>20, <1>21, <1>22 DEF coll

\* The shortfall that StableRequiredForTargetCollRatio computes.
Required == StableRequired(bank, GetCollRatio, rates.coll)

\* The shortfall is an integer, computed from the balances alone.
LEMMA RequiredType ==
    ASSUME IInv, Missing \notin {rates.coll, rates.gov}
    PROVE  /\ Required \in Int /\ StableRequiredNow = Required
           /\ GetCollRatio \in Nat
           /\ GetCollRatio * Supply(bank, "stable") \in Int
           /\ rates.coll * bank["stablecoin"]["coll"] \in Int
           /\ Supply(bank, "stable") \in Nat
<1>1. /\ rates.coll \in Nat \ {0} /\ collRatio \in Nat
      /\ \A a \in Accounts, t \in Tokens : bank[a][t] \in Nat
  BY Guarded
<1>2. GetCollRatio \in Nat
  BY <1>1, RatioIs, AsDecIs
<1>3. Supply(bank, "stable") \in Nat /\ bank["stablecoin"]["coll"] \in Nat
  BY <1>1, Names DEF Supply
<1>4. /\ GetCollRatio * Supply(bank, "stable") \in Int
      /\ rates.coll * bank["stablecoin"]["coll"] \in Int
  BY <1>1, <1>2, <1>3, Products
<1>5. Required \in Int
  BY <1>4 DEF Required, StableRequired
<1>6. StableRequiredNow = Required
  BY Zenon DEF StableRequiredNow, Required
<1> QED BY <1>2, <1>3, <1>4, <1>5, <1>6

\* What is taken of an offer: no more than the amount that is needed, which is
\* positive only when there is something to cover.
LEMMA Offer ==
    ASSUME NEW v \in Int, NEW price \in Nat \ {0}, NEW amt \in Nat, amt > 0,
           NEW needed, needed = CeilInt(Quo(v, price)), needed > 0
    PROVE  /\ v \in Nat
           /\ MinDec(amt, needed) \in Nat \ {0}
           /\ 2 * (Scale * (price * MinDec(amt, needed))) + price
                <= 2 * (v * Scale) + 2 * (Scale * price)
<1>1. v \in Nat
  <2>1. ASSUME v < 0 PROVE FALSE
    BY <2>1, CeilNegative
  <2> QED BY <2>1
<1>2. /\ needed \in Nat
      /\ 2 * (Scale * (price * needed)) + price <= 2 * (v * Scale) + 2 * (Scale * price)
  BY <1>1, CeilQuoBounds
<1> DEFINE in == MinDec(amt, needed)
<1>3. in \in Nat \ {0} /\ in <= needed
  BY <1>2 DEF MinDec
<1> HIDE DEF in
<1>4. price * in <= price * needed
  BY <1>2, <1>3, Signs
<1>5. price * in \in Int /\ price * needed \in Int /\ Scale \in Nat \ {0}
  BY <1>2, <1>3, Products, ScaleAssumption
<1>6. Scale * (price * in) <= Scale * (price * needed)
  BY <1>4, <1>5, Signs
<1>7. /\ Scale * (price * in) \in Int /\ Scale * (price * needed) \in Int
      /\ v * Scale \in Int /\ Scale * price \in Int
  BY <1>1, <1>5, Products
<1>8. 2 * (Scale * (price * in)) + price <= 2 * (v * Scale) + 2 * (Scale * price)
  BY <1>2, <1>6, <1>7
<1> QED BY <1>1, <1>3, <1>8 DEF in

\* Recollateralize takes a coin and mints governance tokens for it.
LEMMA RecollateralizeStep ==
    ASSUME IInv, NEW token \in Tokens, NEW amt \in Nat, Recollateralize(token, amt)
    PROVE  /\ MessageOK
           /\ Supply(bank', "stable") = Supply(bank, "stable")
           /\ Required \in Nat
           /\ token = "coll" => \E in \in Nat \ {0} :
                 /\ bank'["stablecoin"]["coll"] = bank["stablecoin"]["coll"] + in
                 /\ 2 * (Scale * (rates.coll * in)) + rates.coll
                      <= 2 * (Required * Scale) + 2 * (Scale * rates.coll)
<1> DEFINE needed == RecollateralizeCollAmt
           in == MinDec(amt, needed)
           out == GovAmtFromRecollateralize(rates.coll * in)
           b1 == Send(bank, "traders", "stablecoin", token, in)
           b2 == MintTo(b1, "stablecoin", "gov", out)
           b3 == Send(b2, "stablecoin", "traders", "gov", out)
<1>1. /\ Missing \notin {rates.coll, rates.gov}
      /\ needed > 0 /\ amt > 0
      /\ bank["traders"][token] >= in
      /\ bank' = b3
  BY Zenon DEF Recollateralize, Executed
<1>2. /\ bank \in Banks /\ \A a \in Accounts, t \in Tokens : bank[a][t] \in Nat
      /\ rates.coll \in Nat \ {0} /\ rates.gov \in Nat \ {0}
  BY <1>1, Guarded
<1>3. Required \in Int /\ needed = CeilInt(Quo(Required, rates.coll))
  BY <1>1, RequiredType DEF RecollateralizeCollAmt
<1> HIDE DEF needed
<1>4. /\ Required \in Nat /\ in \in Nat \ {0}
      /\ 2 * (Scale * (rates.coll * in)) + rates.coll
           <= 2 * (Required * Scale) + 2 * (Scale * rates.coll)
  BY <1>1, <1>2, <1>3, Offer
<1> HIDE DEF in
<1>5. out \in Nat
  <2>1. rates.coll * in \in Nat
    BY <1>2, <1>4
  <2>2. One + AsDec(BonusRateRecoll) \in Nat
    BY AsDecIs, StablecoinAssumption, ScaleAssumption DEF One
  <2>3. Mul(rates.coll * in, One + AsDec(BonusRateRecoll)) \in Nat
    BY <2>1, <2>2, MulBounds
  <2> QED BY <1>2, <2>3, TruncQuoBounds DEF GovAmtFromRecollateralize
<1> HIDE DEF out
<1>6. in \in Int /\ out \in Int /\ "traders" # "stablecoin"
  BY <1>4, <1>5
<1>7. IsSent(b1, bank, "traders", "stablecoin", token, in) /\ b1 \in Banks
  BY <1>2, <1>6, Names, SendIs, Zenon
<1> HIDE DEF b1
<1>8. IsCredited(b2, b1, "stablecoin", "gov", out) /\ b2 \in Banks
  BY <1>6, <1>7, Names, MintToIs, Zenon
<1> HIDE DEF b2
<1>9. IsSent(b3, b2, "stablecoin", "traders", "gov", out) /\ b3 \in Banks
  BY <1>6, <1>8, Names, SendIs, Zenon
<1> HIDE DEF b3
<1> DEFINE plus(t) == IF t = "gov" THEN out ELSE 0
           paid(t) == IF t = token THEN in ELSE 0
<1>10. /\ \A t \in Tokens : b3["traders"][t] = bank["traders"][t] - paid(t) + plus(t)
       /\ \A t \in Tokens : b3["stablecoin"][t] = bank["stablecoin"][t] + paid(t)
       /\ \A a \in {"stableEF", "treasury"}, t \in Tokens : b3[a][t] = bank[a][t]
  BY <1>2, <1>4, <1>5, <1>7, <1>8, <1>9, Names DEF IsSent, IsCredited, Accounts
<1>11. \A a \in Accounts, t \in Tokens : b3[a][t] >= 0
  <2>1. \A t \in Tokens : b3["traders"][t] >= 0 /\ b3["stablecoin"][t] >= 0
    BY <1>1, <1>2, <1>4, <1>5, <1>10, Names
  <2> QED BY <1>2, <1>10, <2>1 DEF Accounts
<1>12. MessageOK
  BY <1>1, <1>9, <1>11, BankIsNat DEF MessageOK
<1>13. Supply(b3, "stable") = Supply(bank, "stable")
  <2>1. /\ b3["traders"]["stable"] = bank["traders"]["stable"] - paid("stable")
        /\ b3["stablecoin"]["stable"] = bank["stablecoin"]["stable"] + paid("stable")
        /\ \A a \in {"stableEF", "treasury"} : b3[a]["stable"] = bank[a]["stable"]
    BY <1>2, <1>4, <1>10, Names
  <2> QED BY <1>2, <1>4, <2>1, Names DEF Supply
<1>14. token = "coll" => bank'["stablecoin"]["coll"] = bank["stablecoin"]["coll"] + in
  BY <1>1, <1>10, Names
<1> QED BY <1>1, <1>4, <1>12, <1>13, <1>14

\* Buyback burns the coin it is given and pays collateral for it.
LEMMA BuybackStep ==
    ASSUME IInv, NEW token \in Tokens, NEW amt \in Nat, Buyback(token, amt)
    PROVE  /\ MessageOK
           /\ token = "gov" => Supply(bank', "stable") = Supply(bank, "stable")
           /\ -Required \in Nat
           /\ \E in \in Nat, out \in Nat :
                 /\ bank'["stablecoin"]["coll"] = bank["stablecoin"]["coll"] - out
                 /\ 2 * (Scale * (rates.gov * in)) + rates.gov
                      <= 2 * ((-Required) * Scale) + 2 * (Scale * rates.gov)
                 /\ 2 * (Scale * (rates.coll * out))
                      <= 2 * ((rates.gov * in) * Scale) + rates.coll
<1> DEFINE needed == BuybackGovAmt
           in == MinDec(amt, needed)
           out == CollAmtFromBuyback(rates.gov * in)
           b1 == Send(bank, "traders", "stablecoin", token, in)
           b2 == Burn(b1, "stablecoin", token, in)
           b3 == Send(b2, "stablecoin", "traders", "coll", out)
<1>1. /\ Missing \notin {rates.coll, rates.gov}
      /\ needed > 0 /\ amt > 0
      /\ bank["traders"][token] >= in
      /\ bank["stablecoin"]["coll"] >= out
      /\ bank' = b3
  BY Zenon DEF Buyback, Executed
<1>2. /\ bank \in Banks /\ \A a \in Accounts, t \in Tokens : bank[a][t] \in Nat
      /\ rates.coll \in Nat \ {0} /\ rates.gov \in Nat \ {0}
  BY <1>1, Guarded
<1>3. -Required \in Int /\ needed = CeilInt(Quo(-Required, rates.gov))
  BY <1>1, RequiredType DEF BuybackGovAmt
<1> HIDE DEF needed
<1> DEFINE v == -Required
<1> HIDE DEF v
<1>4. /\ v \in Nat /\ in \in Nat \ {0}
      /\ 2 * (Scale * (rates.gov * in)) + rates.gov
           <= 2 * (v * Scale) + 2 * (Scale * rates.gov)
  <2>1. v \in Int /\ needed = CeilInt(Quo(v, rates.gov))
    BY <1>3 DEF v
  <2> QED BY <1>1, <1>2, <2>1, Offer
<1> HIDE DEF in
<1>5. /\ out \in Nat
      /\ 2 * (Scale * (rates.coll * out)) <= 2 * ((rates.gov * in) * Scale) + rates.coll
  <2>1. rates.gov * in \in Nat
    BY <1>2, <1>4
  <2> QED BY <1>2, <2>1, TruncQuoBounds DEF CollAmtFromBuyback
<1> HIDE DEF out
<1>6. in \in Int /\ out \in Int /\ "traders" # "stablecoin"
  BY <1>4, <1>5
<1>7. IsSent(b1, bank, "traders", "stablecoin", token, in) /\ b1 \in Banks
  BY <1>2, <1>6, Names, SendIs, Zenon
<1> HIDE DEF b1
<1>8. IsCredited(b2, b1, "stablecoin", token, -in) /\ b2 \in Banks
  BY <1>6, <1>7, Names, BurnIs, Zenon
<1> HIDE DEF b2
<1>9. IsSent(b3, b2, "stablecoin", "traders", "coll", out) /\ b3 \in Banks
  BY <1>6, <1>8, Names, SendIs, Zenon
<1> HIDE DEF b3
<1> DEFINE plus(t) == IF t = "coll" THEN out ELSE 0
           paid(t) == IF t = token THEN in ELSE 0
<1>10. /\ \A t \in Tokens : b3["traders"][t] = bank["traders"][t] - paid(t) + plus(t)
       /\ \A t \in Tokens : b3["stablecoin"][t] = bank["stablecoin"][t] - plus(t)
       /\ \A a \in {"stableEF", "treasury"}, t \in Tokens : b3[a][t] = bank[a][t]
  <2>1. ASSUME NEW t \in Tokens
        PROVE  /\ b3["traders"][t] = bank["traders"][t] - paid(t) + plus(t)
               /\ b3["stablecoin"][t] = bank["stablecoin"][t] - plus(t)
    <3>1. /\ bank["traders"][t] \in Int /\ bank["stablecoin"][t] \in Int
      BY <1>2, Names
    <3>2. /\ b1["traders"][t] = bank["traders"][t] - paid(t)
          /\ b1["stablecoin"][t] = bank["stablecoin"][t] + paid(t)
      BY <1>4, <1>7, <3>1, Names DEF IsSent
    <3>3. /\ b2["traders"][t] = b1["traders"][t]
          /\ b2["stablecoin"][t] = bank["stablecoin"][t]
      BY <1>4, <1>8, <3>1, <3>2, Names DEF IsCredited
    <3>4. /\ b3["traders"][t] = IF t = "coll" THEN b2["traders"][t] + out
                               ELSE b2["traders"][t]
          /\ b3["stablecoin"][t] = IF t = "coll" THEN b2["stablecoin"][t] - out
                                   ELSE b2["stablecoin"][t]
      BY <1>9, Names DEF IsSent
    <3>5. paid(t) \in Int
      BY <1>4
    <3> HIDE DEF paid
    <3> QED BY <1>5, <3>1, <3>2, <3>3, <3>4, <3>5
  <2>2. \A a \in {"stableEF", "treasury"}, t \in Tokens : b3[a][t] = bank[a][t]
    BY <1>7, <1>8, <1>9 DEF IsSent, IsCredited, Accounts
  <2> QED BY <2>1, <2>2
<1>11. \A a \in Accounts, t \in Tokens : b3[a][t] >= 0
  <2>1. \A t \in Tokens : b3["traders"][t] >= 0 /\ b3["stablecoin"][t] >= 0
    BY <1>1, <1>2, <1>4, <1>5, <1>10, Names
  <2> QED BY <1>2, <1>10, <2>1 DEF Accounts
<1>12. MessageOK
  BY <1>1, <1>9, <1>11, BankIsNat DEF MessageOK
<1>13. token = "gov" => Supply(b3, "stable") = Supply(bank, "stable")
  <2>1. /\ token = "gov" => b3["traders"]["stable"] = bank["traders"]["stable"]
        /\ b3["stablecoin"]["stable"] = bank["stablecoin"]["stable"]
        /\ \A a \in {"stableEF", "treasury"} : b3[a]["stable"] = bank[a]["stable"]
    BY <1>2, <1>4, <1>10, Names
  <2> QED BY <1>2, <2>1, Names DEF Supply
<1>14. bank'["stablecoin"]["coll"] = bank["stablecoin"]["coll"] - out
  BY <1>1, <1>10, Names
<1> QED BY <1>1, <1>4, <1>5, <1>12, <1>13, <1>14 DEF v

-----------------------------------------------------------------------------
(* The clocks keep their type. *)

\* The next period of a clock
LEMMA StartedType ==
    ASSUME NEW info \in EpochInfos, NEW t \in Nat, NEW h \in Nat
    PROVE  StartEpoch(info, t, h) \in EpochInfos
<1> DEFINE n == IF info.counting THEN info.number + 1 ELSE 1
<1>1. n \in Nat
  BY DEF EpochInfos
<1>2. StartEpoch(info, t, h) = [info EXCEPT !.height = h, !.began = t,
                                            !.counting = TRUE, !.number = n]
  BY DEF StartEpoch
<1> HIDE DEF n
<1> QED BY <1>1, <1>2, Zenon DEF EpochInfos

\* and an imported one.
LEMMA AddedType ==
    ASSUME NEW info \in GenesisInfos, NEW t \in Nat, NEW h \in Nat, info.duration # 0
    PROVE  AddEpochInfo(info, t, h) \in EpochInfos
<1> DEFINE s == IF info.start = Unset THEN t ELSE info.start
<1>1. s \in Nat /\ info.duration \in Nat \ {0}
  BY DEF GenesisInfos
<1>2. AddEpochInfo(info, t, h) = [info EXCEPT !.start = s, !.height = h]
  BY DEF AddEpochInfo
<1> HIDE DEF s
<1> QED BY <1>1, <1>2, Zenon DEF EpochInfos, GenesisInfos

\* Genesis, a block and a restart.
LEMMA InitTyped == ASSUME EpochsInit PROVE EpochsTypeOK
<1>1. \A id \in EpochIds : GenesisEpochs[id] \in GenesisInfos /\ GenesisEpochs[id].duration # 0
  BY EpochsAssumption DEF EpochsInit, CanInitGenesis, ValidEpochInfo
<1>2. \A id \in EpochIds : AddEpochInfo(GenesisEpochs[id], 0, 0) \in EpochInfos
  BY <1>1, AddedType
<1>3. epochs = [id \in EpochIds |-> AddEpochInfo(GenesisEpochs[id], 0, 0)]
  BY EpochsAssumption DEF EpochsInit, InitGenesis
<1>4. epochs \in [EpochIds -> EpochInfos]
  BY <1>2, <1>3
<1> QED BY <1>4, EpochsAssumption DEF EpochsInit, EpochsTypeOK

\* A block keeps the types of the clocks.
LEMMA BlockTyped ==
    ASSUME EpochsTypeOK, NEW dt \in Nat, BeginBlocker(dt)
    PROVE  EpochsTypeOK'
<1>1. time' \in 0..MaxTime /\ time' \in Nat /\ height' \in Nat /\ restarts' \in 0..MaxRestarts
  BY EpochsAssumption DEF BeginBlocker, EpochsTypeOK
<1>2. epochs' = [id \in EpochIds |->
                    IF Starts(epochs[id], time')
                    THEN StartEpoch(epochs[id], time', height') ELSE epochs[id]]
  BY DEF EpochsTypeOK, BeginBlocker, AfterBlock
<1>3. \A id \in EpochIds : /\ epochs[id] \in EpochInfos
                           /\ StartEpoch(epochs[id], time', height') \in EpochInfos
  BY <1>1, StartedType DEF EpochsTypeOK
<1>4. epochs' \in [EpochIds -> EpochInfos]
  BY <1>2, <1>3
<1> QED BY <1>1, <1>4 DEF EpochsTypeOK

\* So does a restart.
LEMMA RestartTyped ==
    ASSUME EpochsTypeOK, NEW dt \in Nat, RestartEpochs(dt)
    PROVE  EpochsTypeOK'
<1>1. time' \in 0..MaxTime /\ time' \in Nat /\ height' \in Nat /\ restarts' \in 0..MaxRestarts
  BY EpochsAssumption DEF RestartEpochs, EpochsTypeOK
<1>2. epochs' = [id \in EpochIds |-> AddEpochInfo(epochs[id], time', height')]
  BY DEF EpochsTypeOK, RestartEpochs, InitGenesis
<1>3. \A id \in EpochIds : epochs[id] \in GenesisInfos /\ epochs[id].duration # 0
  BY DEF EpochsTypeOK, EpochInfos, GenesisInfos
<1>4. \A id \in EpochIds : AddEpochInfo(epochs[id], time', height') \in EpochInfos
  BY <1>1, <1>3, AddedType
<1>5. epochs' \in [EpochIds -> EpochInfos]
  BY <1>2, <1>4
<1> QED BY <1>1, <1>5 DEF EpochsTypeOK

-----------------------------------------------------------------------------
(* The steps keep the invariant. *)

\* The genesis state satisfies the invariant.
LEMMA InitOK == Init => IInv
<1> SUFFICES ASSUME Init PROVE IInv
  OBVIOUS
<1>1. EpochsTypeOK
  BY InitTyped DEF Init
<1>2. collRatio \in 0..Million /\ valid \in BOOLEAN /\ phase = "between"
  BY StablecoinAssumption DEF Init
<1>3. bank \in [Accounts -> [Tokens -> Nat]]
  BY StablecoinAssumption DEF Init
<1>4. rates \in [{"coll", "gov"} -> Prices]
  BY DEF Init, Prices
<1>5. history \in [{"txs", "moves"} -> Nat] /\ history.moves = 0
  BY DEF Init
<1> QED BY <1>1, <1>2, <1>3, <1>4, <1>5 DEF IInv, TypeOK

\* A message that keeps the balances natural keeps the invariant.
LEMMA MessageKeeps ==
    ASSUME IInv, MessageOK, NEW b, Executed(b)
    PROVE  IInv'
<1>1. /\ history' = [history EXCEPT !.txs = @ + 1]
      /\ UNCHANGED <<epochs, time, height, restarts, collRatio, valid, rates, average, phase>>
  BY DEF Executed, epochVars
<1>2. history' \in [{"txs", "moves"} -> Nat] /\ history'.moves = history.moves
  BY <1>1 DEF IInv
<1>3. EpochsTypeOK'
  BY <1>1 DEF IInv, TypeOK, EpochsTypeOK
<1> QED BY <1>1, <1>2, <1>3 DEF IInv, TypeOK, MessageOK

\* One evaluation counts at most one move, and only when it succeeds.
LEMMA MovesIs ==
    ASSUME collRatio \in 0..Million, NEW twap, collRatio' = EvaluateCollRatio(twap)
    PROVE  Moves(collRatio') \in {0, 1} /\ (Moves(collRatio') = 1 => Evaluates(twap))
  BY EvaluatedRatio DEF Moves

\* The end of a block, which may move the ratio.
LEMMA EndBlockKeeps ==
    ASSUME IInv, NEW new \in Readings, EndBlock(new)
    PROVE  IInv'
<1>1. collRatio \in 0..Million /\ valid \in BOOLEAN /\ phase = "txs"
  BY DEF IInv, TypeOK, EndBlock
<1>2. /\ rates' = new /\ phase' = "between" /\ bank' = bank
      /\ UNCHANGED <<epochs, time, height, restarts>>
      /\ history' = [history EXCEPT !.moves = @ + Moves(collRatio')]
  BY DEF EndBlock, EndBlocker, epochVars
<1>3. rates' \in [{"coll", "gov"} -> Prices]
  BY <1>2, StablecoinAssumption DEF Prices
<1>4. /\ collRatio' \in 0..Million /\ valid' \in BOOLEAN
      /\ Moves(collRatio') \in {0, 1} /\ (valid => Moves(collRatio') = 0)
  <2>1. CASE valid
    BY <1>1, <2>1 DEF EndBlock, EndBlocker, Moves
  <2>2. CASE ~ valid
    <3>1. collRatio' = EvaluateCollRatio(average) /\ valid' = Evaluates(average)
      BY <2>2 DEF EndBlock, EndBlocker
    <3>2. Evaluates(average) \in BOOLEAN
      BY DEF Evaluates
    <3>3. collRatio' \in 0..Million
      BY <1>1, <3>1, EvaluatedRatio
    <3> QED BY <1>1, <2>2, <3>1, <3>2, <3>3, MovesIs
  <2> QED BY <1>1, <2>1, <2>2
<1>5. /\ history.moves \in Nat /\ history.moves <= 1
      /\ history.moves = 1 => valid
  BY <1>1 DEF IInv
<1>6. /\ history' \in [{"txs", "moves"} -> Nat]
      /\ history'.moves = history.moves + Moves(collRatio')
  BY <1>2, <1>4, <1>5 DEF IInv
<1>7. history'.moves <= 1
  BY <1>4, <1>5, <1>6
<1>8. EpochsTypeOK'
  BY <1>2 DEF IInv, TypeOK, EpochsTypeOK
<1>9. bank' \in [Accounts -> [Tokens -> Nat]]
  BY <1>2 DEF IInv, TypeOK
<1> QED BY <1>2, <1>3, <1>4, <1>6, <1>7, <1>8, <1>9 DEF IInv, TypeOK

\* The begin of a block, whose epoch hook may move the ratio.
LEMMA BeginBlockKeeps ==
    ASSUME IInv, NEW dt \in Nat, NEW twap \in Averages, BeginBlock(dt, twap)
    PROVE  IInv'
<1>1. EpochsTypeOK'
  BY BlockTyped DEF IInv, TypeOK, BeginBlock
<1>2. bank' \in [Accounts -> [Tokens -> Nat]] /\ phase' = "txs"
  BY DEF IInv, TypeOK, BeginBlock
<1>3. collRatio \in 0..Million /\ valid \in BOOLEAN
  BY DEF IInv, TypeOK
<1>4. CASE DistrEpochIdentifier \in EpochEnds(epochs, time')
  <2>1. /\ collRatio' = EvaluateCollRatio(twap) /\ valid' = Evaluates(twap)
        /\ history' = [history EXCEPT !.moves = Moves(collRatio')]
    BY <1>4 DEF BeginBlock, AfterEpochEnd
  <2>3. rates' \in [{"coll", "gov"} -> Prices]
    BY DEF IInv, BeginBlock
  <2>4. Moves(collRatio') \in {0, 1} /\ (Moves(collRatio') = 1 => valid')
    BY <1>3, <2>1, MovesIs
  <2>5. history' \in [{"txs", "moves"} -> Nat] /\ history'.moves = Moves(collRatio')
    BY <2>1, <2>4 DEF IInv
  <2>6. collRatio' \in 0..Million /\ valid' \in BOOLEAN
    BY <1>3, <2>1, EvaluatedRatio DEF Evaluates
  <2> QED BY <1>1, <1>2, <2>3, <2>4, <2>5, <2>6 DEF IInv, TypeOK
<1>5. CASE DistrEpochIdentifier \notin EpochEnds(epochs, time')
  <2>1. /\ history' = [history EXCEPT !.moves = 0]
        /\ UNCHANGED <<collRatio, valid, rates>>
    BY <1>5 DEF BeginBlock
  <2>2. history' \in [{"txs", "moves"} -> Nat] /\ history'.moves = 0
    BY <2>1 DEF IInv
  <2> QED BY <1>1, <1>2, <2>1, <2>2 DEF IInv, TypeOK
<1> QED BY <1>4, <1>5

\* An export restores the ratio, the flag and the clocks.
LEMMA RestartKeeps ==
    ASSUME IInv, NEW dt \in Nat, Restart(dt)
    PROVE  IInv'
<1>1. EpochsTypeOK'
  BY RestartTyped DEF IInv, TypeOK, Restart
<1>2. /\ UNCHANGED <<collRatio, valid, rates, average, phase, history>>
      /\ bank' = MintTo(bank, "stablecoin", "gov", bank["stablecoin"]["gov"])
  BY DEF Restart
<1>3. bank \in [Accounts -> [Tokens -> Nat]] /\ bank["stablecoin"]["gov"] \in Nat
  BY Names DEF IInv, TypeOK
<1>4. bank' \in [Accounts -> [Tokens -> Nat]]
  <2> DEFINE amt == bank["stablecoin"]["gov"]
             b == MintTo(bank, "stablecoin", "gov", amt)
  <2>1. bank \in Banks /\ amt \in Int /\ \A a \in Accounts, t \in Tokens : bank[a][t] >= 0
    BY <1>3 DEF Banks
  <2>2. amt >= 0
    BY <1>3
  <2> HIDE DEF amt
  <2>3. IsCredited(b, bank, "stablecoin", "gov", amt) /\ b \in Banks
    BY <2>1, Names, MintToIs, Zenon
  <2>4. bank' = b
    BY <1>2 DEF amt, b
  <2> HIDE DEF b
  <2>5. \A a \in Accounts, t \in Tokens : b[a][t] >= 0
    BY <1>3, <2>1, <2>2, <2>3 DEF IsCredited
  <2> QED BY <2>3, <2>4, <2>5, BankIsNat
<1> QED BY <1>1, <1>2, <1>4 DEF IInv, TypeOK

\* A stuttering step.
LEMMA UnchangedKeeps == ASSUME IInv, UNCHANGED vars PROVE IInv'
  BY DEF IInv, TypeOK, EpochsTypeOK, vars, epochVars, stableVars

\* The messages of a block.
Message(token, amt) ==
    \/ MintStable(token, amt)
    \/ BurnStable(token, amt)
    \/ Recollateralize(token, amt)
    \/ Buyback(token, amt)

\* Every step keeps the inductive invariant.
LEMMA NextKeeps == IInv /\ [Next]_vars => IInv'
<1> SUFFICES ASSUME IInv, Next PROVE IInv'
  BY UnchangedKeeps
<1>1. ASSUME NEW token \in Tokens, NEW amt \in Amounts, Message(token, amt)
      PROVE  IInv'
  <2>1. amt \in Nat
    BY StablecoinAssumption
  <2>2. MessageOK
    BY <1>1, <2>1, MintStableStep, BurnStableStep, RecollateralizeStep, BuybackStep DEF Message
  <2>3. \E b : Executed(b)
    BY <1>1, Zenon DEF Message, MintStable, BurnStable, Recollateralize, Buyback
  <2> QED BY <2>2, <2>3, MessageKeeps
<1>2. \A dt \in 0..MaxStep : dt \in Nat
  BY EpochsAssumption
<1>3. CASE \E new \in Readings : EndBlock(new)
  BY <1>3, EndBlockKeeps
<1>4. CASE \E dt \in 0..MaxStep, twap \in Averages : BeginBlock(dt, twap)
  BY <1>2, <1>4, BeginBlockKeeps
<1>5. CASE \E dt \in 0..MaxStep : Restart(dt)
  BY <1>2, <1>5, RestartKeeps
<1> QED BY <1>1, <1>3, <1>4, <1>5 DEF Next, Message

\* The collateral ratio stays in 0..1, no account is ever overdrawn, whatever the
\* fees, the prices and the order of the messages, and the ratio moves at most
\* once in a block although the epoch hook and the EndBlocker both evaluate it
\* (SetCollRatio, AfterEpochEnd, EndBlocker).
THEOREM RatioMovesOncePerBlock == Spec => []OneMovePerBlock
<1>1. IInv => OneMovePerBlock
  BY DEF IInv, OneMovePerBlock
<1> QED BY <1>1, InitOK, NextKeeps, PTL DEF Spec

-----------------------------------------------------------------------------
(* Why minting and burning are closed. *)

\* The end of a block explains the flag it leaves.
LEMMA EndBlockExplains ==
    ASSUME IInv, NEW new \in Readings, EndBlock(new)
    PROVE  ValidityExplained'
<1>1. collRatio \in 0..Million /\ valid \in BOOLEAN
  BY DEF IInv, TypeOK
<1>2. average' = average
  BY DEF EndBlock
<1>3. CASE valid
  <2>1. valid' = (average # Missing)
    BY <1>3 DEF EndBlock, EndBlocker
  <2> QED BY <1>2, <2>1 DEF ValidityExplained
<1>4. CASE ~ valid
  <2>1. collRatio' = EvaluateCollRatio(average) /\ valid' = Evaluates(average)
    BY <1>4 DEF EndBlock, EndBlocker
  <2>2. CASE Evaluates(average)
    <3>1. average # Missing /\ valid'
      BY <2>1, <2>2 DEF Evaluates
    <3> QED BY <1>2, <3>1 DEF ValidityExplained
  <2>3. CASE ~ Evaluates(average)
    <3>1. collRatio' = collRatio /\ ~ valid'
      BY <1>1, <2>1, <2>3, EvaluatedRatio
    <3>2. \/ average = Missing
          \/ StepDown(average) /\ ~ CanSetCollRatio(MovedRatio(TRUE))
          \/ StepUp(average) /\ ~ CanSetCollRatio(MovedRatio(FALSE))
      BY <2>3 DEF Evaluates
    <3>3. \/ average = Missing
          \/ StepDown(average) /\ collRatio < AdjustmentStep
          \/ StepUp(average) /\ collRatio + AdjustmentStep > Million
      BY <1>1, <3>2, StepRefused
    <3> QED BY <1>2, <3>1, <3>3 DEF ValidityExplained
  <2> QED BY <2>2, <2>3
<1> QED BY <1>1, <1>3, <1>4

\* Minting and burning never close without a reason: when a block has ended, the
\* average it saw was missing, or asked for a step that would leave 0..1; and they
\* are never open after a block without an average (EndBlocker, AfterEpochEnd).
THEOREM ValidityAlwaysExplained == Spec => []ValidityExplained
<1>1. Init => ValidityExplained
  BY DEF Init, EpochsInit, ValidityExplained
<1>2. ASSUME IInv, ValidityExplained, [Next]_vars PROVE ValidityExplained'
  <2>1. CASE UNCHANGED vars
    BY <1>2, <2>1 DEF vars, epochVars, stableVars, ValidityExplained
  <2>2. ASSUME NEW token \in Tokens, NEW amt \in Amounts, Message(token, amt)
        PROVE  ValidityExplained'
    <3>1. phase = "txs" /\ \E b : Executed(b)
      BY <2>2, Zenon DEF Message, MintStable, BurnStable, Recollateralize, Buyback, InBlock
    <3>2. phase' = "txs"
      BY <3>1 DEF Executed
    <3> QED BY <3>2 DEF ValidityExplained
  <2>3. CASE \E new \in Readings : EndBlock(new)
    BY <1>2, <2>3, EndBlockExplains
  <2>4. CASE \E dt \in 0..MaxStep, twap \in Averages : BeginBlock(dt, twap)
    <3>1. phase' = "txs"
      BY <2>4 DEF BeginBlock
    <3> QED BY <3>1 DEF ValidityExplained
  <2>5. CASE \E dt \in 0..MaxStep : Restart(dt)
    <3>1. height' = 0
      BY <2>5 DEF Restart, RestartEpochs
    <3> QED BY <3>1 DEF ValidityExplained
  <2> QED BY <1>2, <2>1, <2>2, <2>3, <2>4, <2>5 DEF Next, Message
<1> QED BY <1>1, <1>2, InitOK, NextKeeps, PTL DEF Spec

-----------------------------------------------------------------------------
(* The collateral. *)

\* What CollateralOnTarget asks of a message, and of Recollateralize.
After == StableRequired(bank', GetCollRatio, rates.coll)
OnTarget == After <= MaxDec(Required, 0) + MaxDec(rates.coll, rates.gov)

\* Dividing by twice the scale.
LEMMA HalfScale ==
    ASSUME NEW x \in Int, NEW y \in Int
    PROVE  /\ 2 * (Scale * x) < 2 * (Scale * y) => x < y
           /\ 2 * (Scale * x) <= 2 * (Scale * y) => x <= y
<1>1. Scale \in Nat \ {0} /\ Scale * x \in Int /\ Scale * y \in Int
  BY ScaleAssumption, Products
<1>2. /\ 2 * (Scale * x) < 2 * (Scale * y) => Scale * x < Scale * y
      /\ 2 * (Scale * x) <= 2 * (Scale * y) => Scale * x <= Scale * y
  BY <1>1
<1> QED BY <1>1, <1>2, Signs

\* Minting leaves less than a coin of collateral to be asked for, as what it takes
\* is truncated.
LEMMA MintOnTarget ==
    ASSUME IInv, NEW stable \in Nat, MintStable("stable", stable)
    PROVE  OnTarget
<1> DEFINE p == rates.coll
           ratio == GetCollRatio
           S == Supply(bank, "stable")
           c == bank["stablecoin"]["coll"]
           n == NeededColl(stable)
           before == StableRequired(bank, ratio, p)
           after == StableRequired(bank', ratio, p)
<1>1. Missing \notin {rates.coll, rates.gov}
  BY DEF MintStable
<1>2. /\ p \in Nat \ {0} /\ rates.gov \in Nat \ {0} /\ c \in Nat
  BY <1>1, Guarded, Names
<1>3. ratio \in Nat /\ S \in Nat /\ n \in Nat /\ n = TruncateInt(Quo(stable * ratio, p))
  BY <1>1, RequiredType, NeededTypes
<1>4. /\ bank'["stablecoin"]["coll"] = c + n
      /\ Supply(bank', "stable") = S + stable
  BY MintStableStep, Names
<1>5. before = ratio * S - p * c
  BY DEF StableRequired
<1>6. after = ratio * (S + stable) - p * (c + n)
  BY <1>4 DEF StableRequired
<1> HIDE DEF p, ratio, S, c, n, before, after
<1> DEFINE v == stable * ratio
<1>7. v \in Nat
  BY <1>3
<1>8. v < p * (n + 1)
  BY <1>2, <1>3, <1>7, TruncQuoBounds DEF v
<1>9. /\ ratio * (S + stable) = ratio * S + v
      /\ p * (c + n) = p * c + p * n
      /\ p * (n + 1) = p * n + p
      /\ ratio * S \in Int /\ p * c \in Int /\ p * n \in Int
  BY <1>2, <1>3
<1> HIDE DEF v
<1>10. after < before + p
  BY <1>2, <1>5, <1>6, <1>7, <1>8, <1>9
<1>11. before \in Int /\ after \in Int
  BY <1>5, <1>6, <1>7, <1>9
<1>12. after <= MaxDec(before, 0) + MaxDec(p, rates.gov)
  BY <1>2, <1>10, <1>11 DEF MaxDec
<1> QED BY <1>12 DEF OnTarget, After, Required, p, ratio, before, after

\* Burning pays out at most the rounding of the last digit too much.
LEMMA BurnOnTarget ==
    ASSUME IInv, NEW stable \in Nat, BurnStable("stable", stable)
    PROVE  OnTarget
<1> DEFINE p == rates.coll
           ratio == GetCollRatio
           S == Supply(bank, "stable")
           c == bank["stablecoin"]["coll"]
           n == NeededColl(stable)
           before == StableRequired(bank, ratio, p)
           after == StableRequired(bank', ratio, p)
<1>1. Missing \notin {rates.coll, rates.gov}
  BY DEF BurnStable
<1>2. /\ p \in Nat \ {0} /\ rates.gov \in Nat \ {0} /\ c \in Nat
  BY <1>1, Guarded, Names
<1>3. ratio \in Nat /\ S \in Nat /\ n \in Nat /\ n = TruncateInt(Quo(stable * ratio, p))
  BY <1>1, RequiredType, NeededTypes
<1>4. /\ bank'["stablecoin"]["coll"] = c - n
      /\ Supply(bank', "stable") = S - stable
  BY BurnStableStep, Names
<1>5. before = ratio * S - p * c
  BY DEF StableRequired
<1>6. after = ratio * (S - stable) - p * (c - n)
  BY <1>4 DEF StableRequired
<1> HIDE DEF p, ratio, S, c, n, before, after
<1> DEFINE v == stable * ratio
<1>7. v \in Nat
  BY <1>3
<1>8. 2 * (Scale * (p * n)) <= 2 * (v * Scale) + p
  BY <1>2, <1>3, <1>7, TruncQuoBounds DEF v
<1>9. /\ ratio * (S - stable) = ratio * S - v
      /\ p * (c - n) = p * c - p * n
      /\ ratio * S \in Int /\ p * c \in Int /\ p * n \in Int
  BY <1>2, <1>3
<1> HIDE DEF v
<1>10. p * n <= v + p
  <2>1. /\ v * Scale = Scale * v /\ Scale * (v + p) = Scale * v + Scale * p
        /\ Scale * v \in Int /\ Scale * p \in Int /\ Scale * (p * n) \in Int
    BY <1>2, <1>7, <1>9, Products, Associate, Distribute, ScaleAssumption
  <2>2. p <= Scale * p
    <3>1. p * 1 <= p * Scale /\ p * 1 = p /\ p * Scale = Scale * p
      BY <1>2, Signs, Associate, ScaleAssumption
    <3> QED BY <3>1
  <2>3. 2 * (Scale * (p * n)) <= 2 * (Scale * (v + p))
    BY <1>2, <1>8, <2>1, <2>2
  <2>4. v + p \in Int
    BY <1>2, <1>7
  <2> QED BY <1>9, <2>3, <2>4, HalfScale
<1>11. before \in Int /\ after \in Int /\ after <= before + p
  BY <1>2, <1>5, <1>6, <1>7, <1>9, <1>10
<1>12. after <= MaxDec(before, 0) + MaxDec(p, rates.gov)
  BY <1>2, <1>11 DEF MaxDec
<1> QED BY <1>12 DEF OnTarget, After, Required, p, ratio, before, after

\* Recollateralize stops at the target: the coin it rounds up to is the last.
LEMMA RecollateralizeOnTarget ==
    ASSUME IInv, NEW amt \in Nat, Recollateralize("coll", amt)
    PROVE  OnTarget /\ After > -rates.coll
<1> DEFINE p == rates.coll
           ratio == GetCollRatio
           S == Supply(bank, "stable")
           c == bank["stablecoin"]["coll"]
           before == StableRequired(bank, ratio, p)
           after == StableRequired(bank', ratio, p)
<1>1. Missing \notin {rates.coll, rates.gov}
  BY DEF Recollateralize
<1>2. /\ p \in Nat \ {0} /\ rates.gov \in Nat \ {0} /\ c \in Nat
  BY <1>1, Guarded, Names
<1>3. ratio * S \in Int /\ before = Required
  BY <1>1, RequiredType DEF Required
<1>4. before \in Nat /\ Supply(bank', "stable") = S
  BY <1>3, RecollateralizeStep, Names
<1>5. PICK in \in Nat \ {0} :
         /\ bank'["stablecoin"]["coll"] = c + in
         /\ 2 * (Scale * (p * in)) + p <= 2 * (before * Scale) + 2 * (Scale * p)
  BY <1>3, RecollateralizeStep, Names
<1>6. before = ratio * S - p * c
  BY DEF StableRequired
<1>7. after = ratio * S - p * (c + in)
  BY <1>4, <1>5 DEF StableRequired
<1> HIDE DEF p, ratio, S, c, before, after
<1>8. /\ p * (c + in) = p * c + p * in
      /\ p * c \in Int /\ p * in \in Nat
  BY <1>2
<1>9. after = before - p * in /\ after \in Int
  BY <1>3, <1>4, <1>6, <1>7, <1>8
<1>10. p * in < before + p
  <2>1. /\ before * Scale = Scale * before /\ Scale * (before + p) = Scale * before + Scale * p
        /\ Scale * before \in Int /\ Scale * p \in Int /\ Scale * (p * in) \in Int
    BY <1>2, <1>4, <1>8, Products, Associate, Distribute, ScaleAssumption
  <2>2. 2 * (Scale * (p * in)) < 2 * (Scale * (before + p))
    BY <1>2, <1>5, <2>1
  <2>3. before + p \in Int
    BY <1>2, <1>4
  <2> QED BY <1>8, <2>2, <2>3, HalfScale
<1>11. after > -p
  BY <1>2, <1>4, <1>8, <1>9, <1>10
<1>12. after <= MaxDec(before, 0) + MaxDec(p, rates.gov)
  BY <1>2, <1>4, <1>8, <1>9 DEF MaxDec
<1> QED BY <1>11, <1>12 DEF OnTarget, After, Required, p, ratio, before, after

\* Buyback stops at the target too: a coin rounded up is burned, and the collateral
\* paid for it is truncated.
LEMMA BuybackOnTarget ==
    ASSUME IInv, NEW amt \in Nat, Buyback("gov", amt)
    PROVE  OnTarget
<1> DEFINE p == rates.coll
           g == rates.gov
           ratio == GetCollRatio
           S == Supply(bank, "stable")
           c == bank["stablecoin"]["coll"]
           before == StableRequired(bank, ratio, p)
           after == StableRequired(bank', ratio, p)
           over == -before
<1>1. Missing \notin {rates.coll, rates.gov}
  BY DEF Buyback
<1>2. /\ p \in Nat \ {0} /\ g \in Nat \ {0} /\ c \in Nat
  BY <1>1, Guarded, Names
<1>3. ratio * S \in Int /\ before = Required /\ before \in Int
  BY <1>1, RequiredType DEF Required
<1>4. over \in Nat /\ Supply(bank', "stable") = S
  BY <1>3, BuybackStep, Names
<1>5. PICK in \in Nat, out \in Nat :
         /\ bank'["stablecoin"]["coll"] = c - out
         /\ 2 * (Scale * (g * in)) + g <= 2 * (over * Scale) + 2 * (Scale * g)
         /\ 2 * (Scale * (p * out)) <= 2 * ((g * in) * Scale) + p
  BY <1>3, BuybackStep, Names
<1>6. before = ratio * S - p * c
  BY DEF StableRequired
<1>7. after = ratio * S - p * (c - out)
  BY <1>4, <1>5 DEF StableRequired
<1>8. before = -over
  BY <1>3
<1> HIDE DEF p, g, ratio, S, c, before, after, over
<1>9. /\ p * (c - out) = p * c - p * out
      /\ p * c \in Int /\ p * out \in Nat /\ g * in \in Nat
  BY <1>2
<1>10. after = p * out - over /\ after \in Int
  BY <1>3, <1>4, <1>6, <1>7, <1>8, <1>9
<1> DEFINE m == MaxDec(p, g)
<1>11. m \in Nat \ {0} /\ p <= m /\ g <= m /\ (m = p \/ m = g)
  BY <1>2 DEF MaxDec
<1> HIDE DEF m
<1>12. p * out <= over + m
  <2>1. /\ (g * in) * Scale = Scale * (g * in) /\ over * Scale = Scale * over
        /\ Scale * (over + m) = Scale * over + Scale * m
        /\ Scale * over \in Int /\ Scale * m \in Int /\ Scale * (p * out) \in Int
        /\ Scale * (g * in) \in Int /\ Scale * g \in Int
    BY <1>2, <1>4, <1>9, <1>11, Products, Associate, Distribute, ScaleAssumption
  <2>2. 2 * (Scale * g) + p <= 2 * (Scale * m) + g
    <3>1. CASE m = g
      BY <1>2, <1>11, <2>1, <3>1
    <3>2. CASE m = p
      <4>1. Scale * (m - g) = Scale * m - Scale * g
        BY <1>2, <1>11, ScaleAssumption
      <4>2. (m - g) * 1 <= (m - g) * Scale
        BY <1>2, <1>11, ScaleAssumption
      <4>3. m - g <= Scale * (m - g)
        BY <1>2, <1>11, <4>2, ScaleAssumption
      <4> QED BY <1>2, <1>11, <2>1, <3>2, <4>1, <4>3
    <3> QED BY <1>11, <3>1, <3>2
  <2>3. 2 * (Scale * (p * out)) <= 2 * (Scale * (over + m))
    BY <1>2, <1>5, <2>1, <2>2
  <2>4. over + m \in Int
    BY <1>4, <1>11
  <2> QED BY <1>9, <2>3, <2>4, HalfScale
<1>13. after <= m
  BY <1>4, <1>9, <1>10, <1>11, <1>12
<1>14. after <= MaxDec(before, 0) + m
  BY <1>3, <1>10, <1>11, <1>13 DEF MaxDec
<1> QED BY <1>14 DEF OnTarget, After, Required, p, g, ratio, before, after, m

\* No message with the coin its field is called after makes the protocol more
\* under-collateralised than it was, or was allowed to be, by more than the value
\* of one coin, whatever the rates, the ratio, the fees, the amounts and the coins
\* earlier messages carried; and Recollateralize stops at the target
\* (MintStable, BurnStable, Recollateralize, Buyback).
THEOREM CollateralStaysOnTarget == Spec => CollateralOnTarget
<1> DEFINE Claim == /\ DocumentedMessage => OnTarget
                    /\ (\E amt \in Amounts : Recollateralize("coll", amt)) =>
                          After > -rates.coll
<1>1. IInv => Claim
  <2>1. \A amt \in Amounts : amt \in Nat
    BY StablecoinAssumption
  <2>2. ASSUME IInv, NEW amt \in Amounts,
               \/ MintStable("stable", amt) \/ BurnStable("stable", amt)
               \/ Recollateralize("coll", amt) \/ Buyback("gov", amt)
        PROVE  OnTarget
    BY <2>1, <2>2, MintOnTarget, BurnOnTarget, RecollateralizeOnTarget, BuybackOnTarget
  <2>3. ASSUME IInv, NEW amt \in Amounts, Recollateralize("coll", amt)
        PROVE  After > -rates.coll
    BY <2>1, <2>3, RecollateralizeOnTarget
  <2> QED BY <2>2, <2>3, Zenon DEF DocumentedMessage
<1>2. Claim => [Claim]_vars
  OBVIOUS
<1>3. [][Claim]_vars => CollateralOnTarget
  BY DEF CollateralOnTarget, OnTarget, After, Required
<1> QED BY <1>1, <1>2, <1>3, InitOK, NextKeeps, PTL DEF Spec
=============================================================================
