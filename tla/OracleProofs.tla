---------------------------- MODULE OracleProofs ----------------------------
(***************************************************************************)
(* The commit-reveal scheme of the oracle, for every vote period, set of   *)
(* validators and report.  Revealing compares vote periods                 *)
(* (msg_server.go) and clearing compares heights (ballot.go): the lemmas   *)
(* on periods say that the two agree at the block where prevotes are       *)
(* cleared.                                                                *)
(*                                                                         *)
(* Then what the end of a period does with the votes (TInv): a price has a *)
(* quorum and follows a majority, a faithful validator is not charged, the *)
(* rewards still to be paid are in the account, and neither the payout nor *)
(* the judgement panics.  WindowOK bounds the tallies of a slash window:   *)
(* only validators below the minimum are slashed.  TimelinesOK orders the  *)
(* snapshots of the prices: their time-weighted average lies between them. *)
(***************************************************************************)
EXTENDS Oracle, ArithmeticProofs

\* A block that is not the last of its period is followed by one of the same.
LEMMA SamePeriod ==
    ASSUME NEW V \in Nat \ {0}, NEW h \in Nat, (h + 1) % V # 0
    PROVE  (h + 1) \div V = h \div V
  BY SMT

\* The last block of a period is followed by the first of the next.
LEMMA NextPeriod ==
    ASSUME NEW V \in Nat \ {0}, NEW h \in Nat, (h + 1) % V = 0
    PROVE  (h + 1) \div V = h \div V + 1
  BY SMT

\* At the last block of a period, a height less than V blocks ago is in it.
LEMMA RecentIsThisPeriod ==
    ASSUME NEW V \in Nat \ {0}, NEW h \in Nat, NEW s \in Nat,
           (h + 1) % V = 0, s <= h, h < s + V
    PROVE  s \div V = h \div V
  BY SMT

\* A height that is V blocks ago or more is in an earlier one.
LEMMA OldIsEarlierPeriod ==
    ASSUME NEW V \in Nat \ {0}, NEW h \in Nat, NEW s \in Nat,
           (h + 1) % V = 0, s + V <= h
    PROVE  s \div V + 1 <= h \div V
  BY SMT

\* The period of a height is a natural number.
LEMMA PeriodIsNat ==
    ASSUME NEW h \in Nat
    PROVE  VotePeriodOf(h) \in Nat
  BY PeriodAssumption, SMT DEF VotePeriodOf

-----------------------------------------------------------------------------
(* The inductive invariant. *)

\* Heights are natural numbers, and no prevote is from the future.
HeightsOK ==
    /\ height \in Nat
    /\ "commit" \in DOMAIN history
    /\ \A v \in DOMAIN prevotes : prevotes[v].submit \in Nat /\ prevotes[v].submit <= height
    /\ \A v \in DOMAIN votes : v \in DOMAIN history.commit /\ history.commit[v] \in Nat

IInv == HeightsOK /\ PrevotesFresh /\ CommitBeforeReveal

\* What the handlers of messages and hooks leave alone.
Unvoted == UNCHANGED <<height, prevotes, votes>> /\ history'.commit = history.commit
             /\ "commit" \in DOMAIN history'

\* A step that touches neither votes nor the height keeps the invariant.
LEMMA UnvotedKeeps == ASSUME IInv, Unvoted PROVE IInv'
  BY DEF IInv, Unvoted, HeightsOK, PrevotesFresh, CommitBeforeReveal, VotePeriodOf

\* Genesis has no votes and no prevotes.
LEMMA InitIInv == ASSUME Init PROVE IInv
  BY DEF Init, EmptyMap, IInv, HeightsOK, PrevotesFresh, CommitBeforeReveal

\* A prevote is of this height, and the others stay.
LEMMA PrevoteKeeps ==
    ASSUME IInv, NEW v, NEW feeder, NEW report, AggregateExchangeRatePrevote(v, feeder, report)
    PROVE  IInv'
  <1>1. /\ UNCHANGED <<height, votes, history>>
        /\ prevotes' = [x \in DOMAIN prevotes \cup {v} |->
                           IF x = v THEN [report |-> report, submit |-> height]
                           ELSE prevotes[x]]
    BY DEF AggregateExchangeRatePrevote, Put
  <1>2. HeightsOK'
    BY <1>1 DEF IInv, HeightsOK
  <1>3. PrevotesFresh'
    <2> SUFFICES ASSUME NEW w \in DOMAIN prevotes'
                 PROVE  VotePeriodOf(height) - VotePeriodOf(prevotes'[w].submit) \in {0, 1}
      BY <1>1 DEF PrevotesFresh, VotePeriodOf
    <2>1. CASE w = v
      BY <1>1, <2>1, PeriodIsNat DEF IInv, HeightsOK
    <2>2. CASE w # v
      BY <1>1, <2>2 DEF IInv, PrevotesFresh
    <2> QED BY <2>1, <2>2
  <1>4. CommitBeforeReveal'
    BY <1>1 DEF IInv, CommitBeforeReveal, VotePeriodOf
  <1> QED BY <1>2, <1>3, <1>4 DEF IInv

\* A vote comes from a prevote of the period before.
LEMMA VoteKeeps ==
    ASSUME IInv, NEW v, NEW feeder, NEW report, AggregateExchangeRateVote(v, feeder, report)
    PROVE  IInv'
  <1> DEFINE s == prevotes[v].submit
  <1>1. /\ v \in DOMAIN prevotes
        /\ VotePeriodOf(height) - VotePeriodOf(s) = 1
        /\ height' = height
        /\ prevotes' = [x \in DOMAIN prevotes \ {v} |-> prevotes[x]]
        /\ votes' = [x \in DOMAIN votes \cup {v} |-> IF x = v THEN report ELSE votes[x]]
        /\ history' = [history EXCEPT !.commit =
              [x \in DOMAIN history.commit \cup {v} |->
                 IF x = v THEN s ELSE history.commit[x]]]
    BY DEF AggregateExchangeRateVote, CanReveal, Put, Restrict
  <1>2. s \in Nat /\ height \in Nat
    BY <1>1 DEF IInv, HeightsOK
  <1>3. /\ "commit" \in DOMAIN history'
        /\ history'.commit = [x \in DOMAIN history.commit \cup {v} |->
                                IF x = v THEN s ELSE history.commit[x]]
    BY <1>1 DEF IInv, HeightsOK
  <1>4. HeightsOK'
    BY <1>1, <1>2, <1>3 DEF IInv, HeightsOK
  <1>5. PrevotesFresh'
    BY <1>1 DEF IInv, PrevotesFresh, VotePeriodOf
  <1>6. CommitBeforeReveal'
    <2> SUFFICES ASSUME NEW w \in DOMAIN votes'
                 PROVE  /\ w \in DOMAIN history'.commit
                        /\ VotePeriodOf(height) = VotePeriodOf(history'.commit[w]) + 1
      BY <1>1 DEF CommitBeforeReveal, VotePeriodOf
    <2>1. CASE w = v
      BY <1>1, <1>2, <1>3, <2>1, PeriodIsNat
    <2>2. CASE w # v
      BY <1>1, <1>3, <2>2 DEF IInv, CommitBeforeReveal
    <2> QED BY <2>1, <2>2
  <1> QED BY <1>4, <1>5, <1>6 DEF IInv

\* What the end of a block does to the prevotes and the votes.
LEMMA EndBlockEffect ==
    ASSUME EndBlock, "commit" \in DOMAIN history
    PROVE  \/ Unvoted
           \/ /\ height' = height + 1
              /\ (height + 1) % VotePeriod # 0
              /\ UNCHANGED <<prevotes, votes>>
              /\ "commit" \in DOMAIN history' /\ history'.commit = history.commit
           \/ /\ height' = height + 1
              /\ (height + 1) % VotePeriod = 0
              /\ prevotes' = [x \in PrevotesKept |-> prevotes[x]]
              /\ votes' = EmptyMap
              /\ "commit" \in DOMAIN history'
  <1>1. CASE UNCHANGED <<height, votingVars, history>>
    BY <1>1 DEF Unvoted, votingVars
  <1>2. CASE /\ height' = height + 1
             /\ history' = HistoryAfter(StakingEndBlocker)
             /\ ~ IsPeriodLastBlock(VotePeriod)
             /\ UNCHANGED votingVars
    <2>1. "commit" \in DOMAIN history' /\ history'.commit = history.commit
      BY <1>2 DEF HistoryAfter
    <2> QED BY <1>2, <2>1 DEF IsPeriodLastBlock, votingVars
  <1>3. CASE /\ height' = height + 1
             /\ history' = HistoryAfter(StakingEndBlocker)
             /\ IsPeriodLastBlock(VotePeriod)
             /\ prevotes' = Restrict(prevotes, PrevotesKept)
             /\ votes' = EmptyMap
    <2>1. "commit" \in DOMAIN history'
      BY <1>3 DEF HistoryAfter
    <2> QED BY <1>3, <2>1 DEF IsPeriodLastBlock, Restrict
  <1> QED BY <1>1, <1>2, <1>3 DEF EndBlock, UpdateExchangeRates

\* Within a period nothing changes; at its end the votes go, and the prevotes that
\* stay are those of this period.
LEMMA EndBlockKeeps == ASSUME IInv, EndBlock PROVE IInv'
  <1>0. height \in Nat /\ VotePeriod \in Nat \ {0} /\ "commit" \in DOMAIN history
    BY PeriodAssumption DEF IInv, HeightsOK
  <1>1. CASE Unvoted
    BY <1>1, UnvotedKeeps
  <1>2. CASE /\ height' = height + 1
             /\ (height + 1) % VotePeriod # 0
             /\ UNCHANGED <<prevotes, votes>>
             /\ "commit" \in DOMAIN history' /\ history'.commit = history.commit
    <2>1. VotePeriodOf(height') = VotePeriodOf(height)
      BY <1>0, <1>2, SamePeriod DEF VotePeriodOf
    <2>2. HeightsOK'
      BY <1>0, <1>2 DEF IInv, HeightsOK
    <2>3. PrevotesFresh'
      BY <1>2, <2>1 DEF IInv, PrevotesFresh, VotePeriodOf
    <2>4. CommitBeforeReveal'
      BY <1>2, <2>1 DEF IInv, CommitBeforeReveal, VotePeriodOf
    <2> QED BY <2>2, <2>3, <2>4 DEF IInv
  <1>3. CASE /\ height' = height + 1
             /\ (height + 1) % VotePeriod = 0
             /\ prevotes' = [x \in PrevotesKept |-> prevotes[x]]
             /\ votes' = EmptyMap
             /\ "commit" \in DOMAIN history'
    <2>1. DOMAIN votes' = {}
      BY <1>3 DEF EmptyMap
    <2>2. \A v \in DOMAIN prevotes' :
             /\ prevotes'[v].submit \in Nat
             /\ prevotes'[v].submit <= height
             /\ height < prevotes'[v].submit + VotePeriod
      BY <1>3 DEF IInv, HeightsOK, PrevotesKept
    <2>3. HeightsOK'
      BY <1>0, <1>3, <2>1, <2>2 DEF HeightsOK
    <2>4. PrevotesFresh'
      <3> SUFFICES ASSUME NEW v \in DOMAIN prevotes'
                   PROVE  VotePeriodOf(height') - VotePeriodOf(prevotes'[v].submit) = 1
        BY DEF PrevotesFresh, VotePeriodOf
      <3>1. VotePeriodOf(height') = VotePeriodOf(height) + 1
        BY <1>0, <1>3, NextPeriod DEF VotePeriodOf
      <3>2. VotePeriodOf(prevotes'[v].submit) = VotePeriodOf(height)
        BY <1>0, <1>3, <2>2, RecentIsThisPeriod DEF VotePeriodOf
      <3> QED BY <1>0, <3>1, <3>2, PeriodIsNat
    <2>5. CommitBeforeReveal'
      BY <2>1 DEF CommitBeforeReveal
    <2> QED BY <2>3, <2>4, <2>5 DEF IInv
  <1> QED BY <1>0, <1>1, <1>2, <1>3, EndBlockEffect

\* The actions that neither vote nor end a block.
LEMMA OthersUnvoted ==
    ASSUME IInv, Next,
           ~ EndBlock,
           \A v \in Validators, feeder \in Feeders, report \in Reports :
               /\ ~ AggregateExchangeRatePrevote(v, feeder, report)
               /\ ~ AggregateExchangeRateVote(v, feeder, report)
    PROVE  Unvoted
  <1>0. "commit" \in DOMAIN history
    BY DEF IInv, HeightsOK
  <1>1. ASSUME NEW d \in Delegations, DelegateFeedConsent(d[1], d[2]) PROVE Unvoted
    BY <1>0, <1>1 DEF DelegateFeedConsent, Unvoted, votingVars
  <1>2. CASE AfterWeekEnd
    BY <1>0, <1>2 DEF AfterWeekEnd, Unvoted, votingVars
  <1>3. ASSUME NEW amt \in Fees, PayFees(amt) PROVE Unvoted
    BY <1>0, <1>3 DEF PayFees, Unvoted, votingVars
  <1>4. ASSUME NEW v \in Leavers, Undelegate(v) PROVE Unvoted
    BY <1>0, <1>4 DEF Undelegate, Unvoted, votingVars
  <1>5. ASSUME NEW v \in Validators, Unjail(v) PROVE Unvoted
    BY <1>0, <1>5 DEF Unjail, Unvoted, votingVars
  <1>6. CASE Restart
    BY <1>0, <1>6 DEF Restart, Unvoted
  <1> QED BY <1>1, <1>2, <1>3, <1>4, <1>5, <1>6 DEF Next

\* Every step keeps the invariant.
LEMMA NextKeeps == ASSUME IInv, [Next]_vars PROVE IInv'
  <1>1. CASE UNCHANGED vars
    <2>1. Unvoted
      BY <1>1 DEF vars, votingVars, Unvoted, IInv, HeightsOK
    <2> QED BY <2>1, UnvotedKeeps
  <1>2. CASE EndBlock
    BY <1>2, EndBlockKeeps
  <1>3. ASSUME NEW v \in Validators, NEW feeder \in Feeders, NEW report \in Reports,
               \/ AggregateExchangeRatePrevote(v, feeder, report)
               \/ AggregateExchangeRateVote(v, feeder, report)
        PROVE  IInv'
    BY <1>3, PrevoteKeeps, VoteKeeps
  <1> QED BY <1>1, <1>2, <1>3, OthersUnvoted, UnvotedKeeps

-----------------------------------------------------------------------------
(* The theorems. *)

\* The check of AggregateExchangeRateVote and the clearing at the end of a period
\* keep the scheme for every vote period and every set of validators: each vote that
\* can be tallied was committed in the period before.
THEOREM CommitAlwaysBeforeReveal == Spec => []CommitBeforeReveal
  <1>1. Init => IInv
    BY InitIInv
  <1>2. IInv /\ [Next]_vars => IInv'
    BY NextKeeps
  <1>3. IInv => CommitBeforeReveal
    BY DEF IInv
  <1> QED BY <1>1, <1>2, <1>3, PTL DEF Spec

\* clearVotesAndPreVotes, which compares heights, leaves no prevote that the
\* comparison of periods in AggregateExchangeRateVote could not accept now or in
\* the next period.
THEOREM PrevotesAlwaysFresh == Spec => []PrevotesFresh
  <1>1. Init => IInv
    BY InitIInv
  <1>2. IInv /\ [Next]_vars => IInv'
    BY NextKeeps
  <1>3. IInv => PrevotesFresh
    BY DEF IInv
  <1> QED BY <1>1, <1>2, <1>3, PTL DEF Spec

\* What PrevotesNotLost says of one step.
Kept(v) ==
    \/ v \in DOMAIN prevotes'
    \/ v \in DOMAIN votes'
    \/ VotePeriodOf(height') > VotePeriodOf(prevotes[v].submit) + 1

\* A step only removes a prevote that is revealed or that is too old.
LEMMA NextKeepsPrevotes ==
    ASSUME IInv, Next, NEW v \in DOMAIN prevotes
    PROVE  Kept(v)
  <1>1. CASE EndBlock
    <2>0. height \in Nat /\ VotePeriod \in Nat \ {0} /\ "commit" \in DOMAIN history
          /\ prevotes[v].submit \in Nat
      BY PeriodAssumption DEF IInv, HeightsOK
    <2>1. CASE UNCHANGED prevotes
      BY <2>1 DEF Kept
    <2>2. CASE /\ height' = height + 1
               /\ (height + 1) % VotePeriod = 0
               /\ prevotes' = [x \in PrevotesKept |-> prevotes[x]]
      <3>1. CASE v \in PrevotesKept
        BY <2>2, <3>1 DEF Kept
      <3>2. CASE v \notin PrevotesKept
        <4>1. prevotes[v].submit + VotePeriod <= height
          BY <2>0, <3>2 DEF PrevotesKept
        <4>2. VotePeriodOf(prevotes[v].submit) + 1 <= VotePeriodOf(height)
          BY <2>0, <2>2, <4>1, OldIsEarlierPeriod DEF VotePeriodOf
        <4>3. VotePeriodOf(height') = VotePeriodOf(height) + 1
          BY <2>0, <2>2, NextPeriod DEF VotePeriodOf
        <4> QED BY <2>0, <4>2, <4>3, PeriodIsNat DEF Kept
      <3> QED BY <3>1, <3>2
    <2> QED BY <1>1, <2>0, <2>1, <2>2, EndBlockEffect DEF Unvoted
  <1>2. ASSUME NEW w, NEW feeder, NEW report, AggregateExchangeRatePrevote(w, feeder, report)
        PROVE  Kept(v)
    BY <1>2 DEF AggregateExchangeRatePrevote, Put, Kept
  <1>3. ASSUME NEW w, NEW feeder, NEW report, AggregateExchangeRateVote(w, feeder, report)
        PROVE  Kept(v)
    <2>1. /\ prevotes' = [x \in DOMAIN prevotes \ {w} |-> prevotes[x]]
          /\ votes' = [x \in DOMAIN votes \cup {w} |-> IF x = w THEN report ELSE votes[x]]
      BY <1>3 DEF AggregateExchangeRateVote, Put, Restrict
    <2> QED BY <2>1 DEF Kept
  <1>4. CASE Unvoted
    BY <1>4 DEF Unvoted, Kept
  <1> QED BY <1>1, <1>2, <1>3, <1>4, OthersUnvoted

\* No step of any actor takes a prevote away before the period in which its
\* validator can reveal it is over.
THEOREM PrevotesNeverLost == Spec => PrevotesNotLost
  <1>1. Init => IInv
    BY InitIInv
  <1>2. IInv /\ [Next]_vars => IInv'
    BY NextKeeps
  <1>3. IInv /\ [Next]_vars =>
           [\A v \in DOMAIN prevotes :
               \/ v \in DOMAIN prevotes'
               \/ v \in DOMAIN votes'
               \/ VotePeriodOf(height') > VotePeriodOf(prevotes[v].submit) + 1]_vars
    BY NextKeepsPrevotes DEF Kept
  <1> QED BY <1>1, <1>2, <1>3, PTL DEF Spec, PrevotesNotLost

-----------------------------------------------------------------------------
(* Ballots: what the tally makes of one. *)

\* A ballot of finitely many votes, in which an abstention has no power.
IsBallot(b) ==
    /\ IsFiniteSet(DOMAIN b)
    /\ \A v \in DOMAIN b : /\ b[v].rate \in Int
                           /\ b[v].power \in Nat
                           /\ Abstains(b, v) => b[v].power = 0

\* The powers of any of its voters add up.
LEMMA PowerOfType ==
    ASSUME NEW b, IsBallot(b), NEW S, S \subseteq DOMAIN b
    PROVE  /\ IsFiniteSet(S) /\ IntOn(Powers(b), S)
           /\ PowerOf(b, S) \in Nat
  <1>1. IsFiniteSet(S)
    BY FS_Subset DEF IsBallot
  <1>2. \A v \in S : Powers(b)[v] \in Nat
    BY DEF IsBallot, Powers
  <1>3. IntOn(Powers(b), S)
    BY <1>2 DEF IntOn
  <1>4. SumFunctionOnSet(Powers(b), S) \in Nat
    BY <1>1, <1>2, SumNatural
  <1> QED BY <1>1, <1>3, <1>4 DEF PowerOf

\* Two sets of voters that share none have at most the power of the ballot.
LEMMA DisjointPowers ==
    ASSUME NEW b, IsBallot(b), NEW S, NEW T, S \subseteq DOMAIN b, T \subseteq DOMAIN b,
           S \cap T = {}
    PROVE  PowerOf(b, S) + PowerOf(b, T) <= BallotPower(b)
  <1> DEFINE D == DOMAIN b
             R == D \ S
             U == R \ T
  <1>1. /\ D \subseteq D /\ R \subseteq D /\ U \subseteq D /\ T \subseteq R
    OBVIOUS
  <1>2. /\ IsFiniteSet(D) /\ IntOn(Powers(b), D)
        /\ IsFiniteSet(R) /\ IntOn(Powers(b), R)
        /\ PowerOf(b, S) \in Nat /\ PowerOf(b, T) \in Nat /\ PowerOf(b, U) \in Nat
        /\ PowerOf(b, R) \in Nat
    BY <1>1, PowerOfType
  <1>3. PowerOf(b, D) = PowerOf(b, S) + PowerOf(b, R)
    BY <1>2, SumSplit DEF PowerOf
  <1>4. PowerOf(b, R) = PowerOf(b, T) + PowerOf(b, U)
    <2> HIDE DEF R
    <2> QED BY <1>1, <1>2, SumSplit DEF PowerOf
  <1> QED BY <1>2, <1>3, <1>4 DEF BallotPower

\* A larger set of voters has no less power.
LEMMA MorePower ==
    ASSUME NEW b, IsBallot(b), NEW S, NEW T, S \subseteq T, T \subseteq DOMAIN b
    PROVE  PowerOf(b, S) <= PowerOf(b, T)
  <1>1. /\ IsFiniteSet(T) /\ IntOn(Powers(b), T)
        /\ PowerOf(b, S) \in Nat /\ PowerOf(b, T \ S) \in Nat
    <2>1. S \subseteq DOMAIN b /\ T \ S \subseteq DOMAIN b
      OBVIOUS
    <2> QED BY <2>1, PowerOfType
  <1>2. PowerOf(b, T) = PowerOf(b, S) + PowerOf(b, T \ S)
    BY <1>1, SumSplit DEF PowerOf
  <1> QED BY <1>1, <1>2

\* The rates at which the walk has half of the power.
Halves(b) == {r \in Rates(b) : PowerUpTo(b, r) >= BallotPower(b) \div 2}

\* The walk stops: at the highest rate it has all of the power.
LEMMA HalfReached ==
    ASSUME NEW b, IsBallot(b), DOMAIN b # {}
    PROVE  Halves(b) # {} /\ Halves(b) \subseteq Int /\ IsFiniteSet(Halves(b))
  <1> DEFINE rate == [v \in DOMAIN b |-> b[v].rate]
  <1>1. Rates(b) = {rate[v] : v \in DOMAIN b}
    BY DEF Rates
  <1>2. IsFiniteSet(Rates(b))
    <2> HIDE DEF rate
    <2> QED BY <1>1, FiniteImage DEF IsBallot
  <1>3. Rates(b) \subseteq Int /\ Rates(b) # {}
    BY DEF Rates, IsBallot
  <1>4. PICK m \in Rates(b) : \A r \in Rates(b) : r <= m
    BY <1>2, <1>3, GreatestInteger
  <1>5. {v \in DOMAIN b : b[v].rate <= m} = DOMAIN b
    BY <1>4 DEF Rates
  <1>6. PowerUpTo(b, m) = BallotPower(b)
    BY <1>5 DEF PowerUpTo, BallotPower
  <1>7. BallotPower(b) \in Nat
    BY PowerOfType DEF BallotPower
  <1>8. m \in Halves(b)
    BY <1>4, <1>6, <1>7 DEF Halves
  <1>9. IsFiniteSet(Halves(b))
    BY <1>2, FS_Subset DEF Halves
  <1> QED BY <1>3, <1>8, <1>9 DEF Halves

\* The median is one of the rates, the lowest with half of the power.
LEMMA MedianIs ==
    ASSUME NEW b, IsBallot(b), DOMAIN b # {}
    PROVE  /\ WeightedMedian(b) \in Halves(b)
           /\ \A r \in Halves(b) : WeightedMedian(b) <= r
           /\ WeightedMedian(b) \in Int
  <1>1. \E m \in Halves(b) : \A r \in Halves(b) : m <= r
    BY HalfReached, LeastInteger
  <1>2. WeightedMedian(b) = CHOOSE m \in Halves(b) : \A r \in Halves(b) : m <= r
    BY DEF WeightedMedian, Halves, Min
  <1> QED BY <1>1, <1>2, HalfReached

\* More than half of the power, by more than one unit, on a rate makes it the median.
LEMMA MajorityIsMedian ==
    ASSUME NEW b, IsBallot(b), DOMAIN b # {}, NEW r \in Rates(b),
           2 * PowerOf(b, {v \in DOMAIN b : b[v].rate = r}) > BallotPower(b) + 1
    PROVE  WeightedMedian(b) = r
  <1> DEFINE at == {v \in DOMAIN b : b[v].rate = r}
             upTo(s) == {v \in DOMAIN b : b[v].rate <= s}
             m == WeightedMedian(b)
  <1>0. /\ r \in Int /\ m \in Int
        /\ \A v \in DOMAIN b : b[v].rate \in Int
    BY MedianIs DEF Rates, IsBallot
  <1>1. /\ PowerOf(b, at) \in Nat /\ BallotPower(b) \in Nat
        /\ PowerUpTo(b, r) \in Nat /\ PowerUpTo(b, m) \in Nat
    <2>1. at \subseteq DOMAIN b /\ upTo(r) \subseteq DOMAIN b /\ upTo(m) \subseteq DOMAIN b
      OBVIOUS
    <2> QED BY <2>1, PowerOfType DEF BallotPower, PowerUpTo
  <1>2. r \in Halves(b)
    <2>1. at \subseteq upTo(r) /\ upTo(r) \subseteq DOMAIN b
      BY <1>0
    <2>2. PowerOf(b, at) <= PowerUpTo(b, r)
      BY <2>1, MorePower DEF PowerUpTo
    <2> QED BY <1>1, <2>2 DEF Halves
  <1>3. m <= r
    BY <1>2, MedianIs
  <1>4. ASSUME m < r PROVE FALSE
    <2>1. at \cap upTo(m) = {}
      BY <1>0, <1>4
    <2>2. PowerOf(b, at) + PowerUpTo(b, m) <= BallotPower(b)
      <3>1. at \subseteq DOMAIN b /\ upTo(m) \subseteq DOMAIN b
        OBVIOUS
      <3> QED BY <2>1, <3>1, DisjointPowers DEF PowerUpTo
    <2>3. PowerUpTo(b, m) >= BallotPower(b) \div 2
      BY MedianIs DEF Halves
    <2> QED BY <1>1, <2>2, <2>3
  <1> QED BY <1>0, <1>3, <1>4

\* The deviation of a ballot is never negative.
LEMMA DeviationType ==
    ASSUME NEW b, IsBallot(b), DOMAIN b # {}, NEW median \in Int
    PROVE  StandardDeviation(b, median) \in Nat
  <1> DEFINE f == SquaredDeviations(b, median)
             n == Cardinality(DOMAIN b)
             d == QuoInt(SumFunction(f), n)
             x == (4 * d * FloatScale * FloatScale) \div Scale
             s == ISqrt(x)
  <1>1. \A v \in DOMAIN b : f[v] \in Nat
    <2> SUFFICES ASSUME NEW v \in DOMAIN b PROVE f[v] \in Nat
      OBVIOUS
    <2> DEFINE y == b[v].rate - median
    <2>1. y \in Int
      BY DEF IsBallot
    <2>2. f[v] = Mul(y, y)
      BY DEF SquaredDeviations
    <2> HIDE DEF y
    <2>3. y * y \in Nat
      BY <2>1
    <2>4. Mul(y, y) = ChopNat(y * y)
      BY <2>3 DEF Mul, ChopPrecisionAndRound
    <2> QED BY <2>2, <2>3, <2>4, ChopBounds
  <1>2. SumFunction(f) \in Nat
    <2>1. DOMAIN f = DOMAIN b /\ IsFiniteSet(DOMAIN f)
      BY DEF SquaredDeviations, IsBallot
    <2> QED BY <1>1, <2>1, SumNatural DEF SumFunction
  <1>3. n \in Nat \ {0}
    BY FS_CardinalityType, FS_EmptySet DEF IsBallot
  <1>4. d \in Nat
    BY <1>2, <1>3, QuotBounds DEF QuoInt
  <1> HIDE DEF d
  <1>5. x \in Nat
    BY <1>4, FloatAssumption, ScaleAssumption
  <1> HIDE DEF x
  <1>6. s \in Nat
    BY <1>5, ISqrtType
  <1> HIDE DEF s
  <1>7. (s + 1) \div 2 \in Nat /\ Scale \div FloatScale \in Nat
    BY <1>6, FloatAssumption, ScaleAssumption
  <1>8. StandardDeviation(b, median) = ((s + 1) \div 2) * (Scale \div FloatScale)
    BY DEF StandardDeviation, RoundSqrt, s, x, d
  <1> QED BY <1>7, <1>8

\* Whoever gave the median, or abstained, is a winner.
LEMMA MedianWins ==
    ASSUME NEW b, IsBallot(b), NEW v \in DOMAIN b,
           b[v].rate = WeightedMedian(b) \/ Abstains(b, v)
    PROVE  v \in Winners(b, RewardBand)
  <1> DEFINE m == WeightedMedian(b)
             spread == RewardSpread(b, m, RewardBand)
  <1>1. m \in Int
    BY MedianIs
  <1>2. StandardDeviation(b, m) \in Nat
    BY <1>1, DeviationType
  <1>3. Mul(m, QuoInt(RewardBand, 2)) \in Int
    <2>1. QuoInt(RewardBand, 2) \in Int
      BY QuotType, ParamsAssumption, ScaleAssumption DEF QuoInt, One
    <2> QED BY <1>1, <2>1, MulType
  <1>4. spread \in Nat
    BY <1>2, <1>3 DEF RewardSpread, MaxDec
  <1> HIDE DEF spread
  <1>5. b[v].rate = m => m - spread <= b[v].rate /\ b[v].rate <= m + spread
    BY <1>1, <1>4
  <1> QED BY <1>5 DEF Winners, spread

-----------------------------------------------------------------------------
(* The types of the state, and what backs the rewards. *)

Stakes == [status : {"bonded", "unbonding", "gone"}, jailed : BOOLEAN, tokens : Nat, since : Nat]

ChainOK == height \in 1..MaxHeight /\ stake \in [Validators -> Stakes]

ReportsOK ==
    /\ DOMAIN feeders \subseteq Validators
    /\ DOMAIN prevotes \subseteq Validators
    /\ \A v \in DOMAIN prevotes : prevotes[v].submit \in 1..height
    /\ DOMAIN votes \subseteq Validators
    /\ \A v \in DOMAIN votes : votes[v] \in Reports
    /\ whitelist \subseteq Pairs

PricesOK ==
    /\ DOMAIN exchangeRates \subseteq Pairs
    /\ \A p \in DOMAIN exchangeRates : exchangeRates[p] \in Int

\* The first block of the slash window that a height is in.
WindowStart(h) == h - (h % SlashWindow)

\* A counter belongs to a validator that has not begun to leave before this window,
\* and a window begins with none.
MissesOK ==
    /\ DOMAIN missCounters \subseteq Validators
    /\ \A v \in DOMAIN missCounters :
          /\ missCounters[v] \in Nat \ {0}
          /\ stake[v].status # "gone"
          /\ stake[v].status = "unbonding" => stake[v].since > WindowStart(height)
    /\ height % SlashWindow = 0 => DOMAIN missCounters = {}

AreRewards(rs) ==
    /\ IsFiniteSet(DOMAIN rs)
    /\ \A id \in DOMAIN rs : rs[id] \in [periods : Nat \ {0}, coins : Nat]

FundsOK ==
    /\ AreRewards(rewards)
    /\ bank \in [Accounts -> Nat]
    /\ outstanding \in [Validators -> Nat]
    /\ RewardsBacked

TInv ==
    /\ ChainOK /\ ReportsOK /\ PricesOK /\ MissesOK /\ FundsOK
    /\ halted \subseteq {"week"}

\* Staking's EndBlocker keeps the types.  It removes a validator only when its
\* unbonding time is over, and dates an unbonding with this block.
LEMMA StakingStep ==
    ASSUME ChainOK
    PROVE  /\ StakingEndBlocker \in [Validators -> Stakes]
           /\ \A v \in Validators :
                 /\ StakingEndBlocker[v].status = "gone" =>
                       \/ stake[v].status = "gone"
                       \/ /\ stake[v].status = "unbonding"
                          /\ height >= stake[v].since + UnbondingBlocks
                 /\ StakingEndBlocker[v].status = "unbonding" =>
                       \/ /\ stake[v].status = "unbonding"
                          /\ StakingEndBlocker[v].since = stake[v].since
                       \/ StakingEndBlocker[v].since = height
  <1>0. height \in Nat
    BY InputAssumption DEF ChainOK
  <1> DEFINE after(v) == StakingEndBlocker[v]
  <1>1. ASSUME NEW v \in Validators
        PROVE  /\ after(v) \in Stakes
               /\ after(v).status = "gone" =>
                       \/ stake[v].status = "gone"
                       \/ /\ stake[v].status = "unbonding"
                          /\ height >= stake[v].since + UnbondingBlocks
               /\ after(v).status = "unbonding" =>
                       \/ /\ stake[v].status = "unbonding"
                          /\ after(v).since = stake[v].since
                       \/ after(v).since = height
    <2>1. stake[v] \in Stakes
      BY DEF ChainOK
    <2>2. \/ after(v) = [stake[v] EXCEPT !.status = "unbonding", !.since = height]
          \/ after(v) = [stake[v] EXCEPT !.status = "bonded"]
          \/ /\ after(v) = [stake[v] EXCEPT !.status = "gone"]
             /\ stake[v].status = "unbonding"
             /\ height >= stake[v].since + UnbondingBlocks
          \/ after(v) = stake[v]
      BY DEF StakingEndBlocker
    <2> HIDE DEF after
    <2>3. CASE after(v) = [stake[v] EXCEPT !.status = "unbonding", !.since = height]
      BY <1>0, <2>1, <2>3 DEF Stakes
    <2>4. CASE after(v) = [stake[v] EXCEPT !.status = "bonded"]
      BY <2>1, <2>4 DEF Stakes
    <2>5. CASE /\ after(v) = [stake[v] EXCEPT !.status = "gone"]
               /\ stake[v].status = "unbonding"
               /\ height >= stake[v].since + UnbondingBlocks
      BY <2>1, <2>5 DEF Stakes
    <2>6. CASE after(v) = stake[v]
      BY <2>1, <2>6 DEF Stakes
    <2> QED BY <2>2, <2>3, <2>4, <2>5, <2>6
  <1>2. \A v \in Validators : StakingEndBlocker[v] \in Stakes
    BY <1>1
  <1>3. StakingEndBlocker \in [Validators -> Stakes]
    BY <1>2 DEF StakingEndBlocker
  <1> QED BY <1>1, <1>3

\* groupBallotsByPair makes ballots.
LEMMA BallotType ==
    ASSUME ReportsOK, NEW st \in [Validators -> Stakes], NEW p
    PROVE  IsBallot(Ballot(st, p))
  <1> DEFINE b == Ballot(st, p)
  <1>1. DOMAIN b \subseteq Validators
    BY DEF Ballot, Active
  <1>2. IsFiniteSet(DOMAIN b)
    BY <1>1, FS_Subset, InputAssumption
  <1>3. ASSUME NEW v \in DOMAIN b
        PROVE  /\ b[v].rate \in Int
               /\ b[v].power \in Nat
               /\ Abstains(b, v) => b[v].power = 0
    <2>1. /\ b[v] = [rate |-> votes[v][p],
                     power |-> IF votes[v][p] > 0 THEN Power(st[v]) ELSE 0]
          /\ v \in DOMAIN votes /\ p \in DOMAIN votes[v] /\ v \in Validators
      BY <1>1 DEF Ballot
    <2>2. votes[v][p] \in Int
      BY <2>1, InputAssumption DEF ReportsOK
    <2>3. st[v].tokens \in Nat
      BY <2>1 DEF Stakes
    <2>4. Power(st[v]) \in Nat
      BY <2>3, StakingAssumption DEF Power
    <2> QED BY <2>1, <2>2, <2>4 DEF Abstains
  <1> QED BY <1>2, <1>3 DEF IsBallot

\* Only the end of a block changes the height.
LEMMA OnlyEndBlockTallies ==
    ASSUME TInv, [Next]_vars, Tallies
    PROVE  EndBlock
  <1>0. height' # height
    BY InputAssumption DEF Tallies, TInv, ChainOK
  <1>1. ~ UNCHANGED vars
    BY <1>0 DEF vars
  <1>2. ASSUME NEW v, NEW feeder, NEW report,
               \/ AggregateExchangeRatePrevote(v, feeder, report)
               \/ AggregateExchangeRateVote(v, feeder, report)
        PROVE  FALSE
    BY <1>0, <1>2 DEF AggregateExchangeRatePrevote, AggregateExchangeRateVote
  <1>3. ASSUME NEW d, DelegateFeedConsent(d[1], d[2]) PROVE FALSE
    BY <1>0, <1>3 DEF DelegateFeedConsent
  <1>4. ~ AfterWeekEnd
    BY <1>0 DEF AfterWeekEnd
  <1>5. ASSUME NEW amt, PayFees(amt) PROVE FALSE
    BY <1>0, <1>5 DEF PayFees
  <1>6. ASSUME NEW v, Undelegate(v) \/ Unjail(v) PROVE FALSE
    BY <1>0, <1>6 DEF Undelegate, Unjail
  <1>7. ~ Restart
    BY <1>0 DEF Restart
  <1> QED BY <1>1, <1>2, <1>3, <1>4, <1>5, <1>6, <1>7 DEF Next

\* What a tally gives to the validators, and the counters it leaves.
EndPortions ==
    IF IsPeriodLastBlock(VotePeriod)
    THEN Portions(ValidatorPerformances(StakingEndBlocker)) ELSE EmptyMap
EndMisses ==
    IF IsPeriodLastBlock(VotePeriod)
    THEN MissesAfterTally(Missing(StakingEndBlocker, ValidatorPerformances(StakingEndBlocker)))
    ELSE missCounters
EndPanics == Panics(StakingEndBlocker, EndPortions, EndMisses)

\* The end of a block that does not panic.
BlockEnds ==
    /\ height < MaxHeight
    /\ height' = height + 1
    /\ IF IsPeriodLastBlock(VotePeriod)
       THEN UpdateExchangeRates(StakingEndBlocker, EndPortions)
       ELSE UNCHANGED <<votingVars, rewards, bank, outstanding>>
    /\ IF IsPeriodLastBlock(SlashWindow)
       THEN /\ stake' = [v \in Validators |->
                  IF v \in Slashed(StakingEndBlocker, EndMisses)
                  THEN SlashAndJail(StakingEndBlocker[v]) ELSE StakingEndBlocker[v]]
            /\ missCounters' = MissesAfterWindow(EndMisses)
       ELSE stake' = StakingEndBlocker /\ missCounters' = EndMisses
    /\ history' = HistoryAfter(StakingEndBlocker)
    /\ UNCHANGED <<feeders, rewardsID, halted>>

\* A block that ends is the end of staking's block and then the oracle's; one
\* that panics changes nothing.
LEMMA EndBlockIs ==
    ASSUME EndBlock
    PROVE  /\ halted = {}
           /\ EndPanics = {} => BlockEnds
           /\ EndPanics # {} => /\ halted' = EndPanics
                                /\ UNCHANGED <<height, stake, feeders, votingVars,
                                               missCounters, rewardVars, history>>
  BY Zenon DEF EndBlock, EndPanics, EndPortions, EndMisses, BlockEnds

\* A tally whose block does not stop the chain.
LEMMA TallyEnds ==
    ASSUME TInv, [Next]_vars, Tallies
    PROVE  BlockEnds /\ UpdateExchangeRates(StakingEndBlocker, EndPortions)
  <1>1. EndBlock
    BY OnlyEndBlockTallies
  <1>2. EndPanics = {}
    BY <1>1, EndBlockIs DEF Tallies
  <1> QED BY <1>1, <1>2, EndBlockIs DEF BlockEnds, Tallies

-----------------------------------------------------------------------------
(* What one tally does, for every set of validators and every report. *)

\* The median of a ballot that passes is the rate of some voter.
LEMMA PassingBallot ==
    ASSUME ReportsOK, NEW st \in [Validators -> Stakes], NEW p \in PassingPairs(st)
    PROVE  /\ IsBallot(Ballot(st, p)) /\ DOMAIN Ballot(st, p) # {}
           /\ p \in Pairs /\ p \in whitelist
           /\ Price(st, p) \in Int
           /\ IsPassingVoteThreshold(Ballot(st, p), ThresholdPower(st), MinVoters)
  <1>1. IsBallot(Ballot(st, p))
    BY BallotType
  <1>2. /\ DOMAIN Ballot(st, p) # {} /\ p \in Pairs /\ p \in whitelist
        /\ IsPassingVoteThreshold(Ballot(st, p), ThresholdPower(st), MinVoters)
    BY DEF PassingPairs, VotedPairs
  <1> QED BY <1>1, <1>2, MedianIs DEF Price

\* The positive votes of a ballot carry all of its power.
LEMMA VotersPower ==
    ASSUME ReportsOK, NEW st \in [Validators -> Stakes], NEW p,
           NEW voters, voters = {v \in Active(st) \cap DOMAIN votes :
                                    p \in DOMAIN votes[v] /\ votes[v][p] > 0}
    PROVE  /\ Cardinality(voters) = NumValidVoters(Ballot(st, p))
           /\ SumFunction([v \in voters |-> Power(st[v])]) = BallotPower(Ballot(st, p))
  <1> DEFINE b == Ballot(st, p)
             D == DOMAIN b
             f == [v \in voters |-> Power(st[v])]
             g == Powers(b)
  <1>1. IsBallot(b)
    BY BallotType
  <1>2. D = {v \in Active(st) \cap DOMAIN votes : p \in DOMAIN votes[v]}
    BY DEF Ballot
  <1>3. \A v \in D : /\ b[v].rate = votes[v][p]
                     /\ b[v].power = IF votes[v][p] > 0 THEN Power(st[v]) ELSE 0
                     /\ b[v].rate \in Int
    BY <1>1, <1>2 DEF Ballot, IsBallot
  <1>4. voters = {v \in D : ~ Abstains(b, v)}
    BY <1>2, <1>3 DEF Abstains
  <1>5. /\ voters \subseteq D
        /\ \A v \in D : g[v] = b[v].power
        /\ \A v \in voters : f[v] = g[v]
    BY <1>2, <1>3 DEF Powers
  <1>6. /\ IsFiniteSet(D) /\ IntOn(g, D)
        /\ IsFiniteSet(voters) /\ IntOn(g, voters)
    BY <1>1, <1>5, PowerOfType
  <1>7. \A v \in D \ voters : g[v] = 0
    BY <1>1, <1>4, <1>5 DEF IsBallot
  <1>8. IntOn(f, voters) /\ DOMAIN f = voters
    BY <1>5, <1>6 DEF IntOn
  <1> HIDE DEF f, g, D
  <1>9. SumFunctionOnSet(g, D) = SumFunctionOnSet(g, voters)
    BY <1>5, <1>6, <1>7, SumSubset
  <1>10. SumFunctionOnSet(f, voters) = SumFunctionOnSet(g, voters)
    BY <1>5, <1>6, <1>8, SumEqual
  <1>11. SumFunction(f) = SumFunctionOnSet(g, D)
    BY <1>8, <1>9, <1>10 DEF SumFunction
  <1>12. SumFunction(f) = BallotPower(b)
    BY <1>11 DEF BallotPower, PowerOf, g, D
  <1>13. Cardinality(voters) = NumValidVoters(b)
    BY <1>4 DEF NumValidVoters, D
  <1> QED BY <1>12, <1>13 DEF f

\* What PriceNeedsQuorum and MajorityDecides say of one step and one pair.
Quorum(p) ==
    LET st == StakingEndBlocker
        voters == {v \in Active(st) \cap DOMAIN votes :
                      p \in DOMAIN votes[v] /\ votes[v][p] > 0}
    IN  /\ Cardinality(voters) >= MinVoters
        /\ SumFunction([v \in voters |-> Power(st[v])]) >= ThresholdPower(st)
Majority(p) ==
    LET b == Ballot(StakingEndBlocker, p) IN
    \A r \in Rates(b) :
       2 * PowerOf(b, {v \in DOMAIN b : b[v].rate = r}) > BallotPower(b) + 1
          => exchangeRates'[p] = r

\* The prices that a tally sets.
LEMMA TalliedPrices ==
    ASSUME TInv, [Next]_vars, Tallies
    PROVE  /\ StakingEndBlocker \in [Validators -> Stakes]
           /\ exchangeRates' = [p \in PassingPairs(StakingEndBlocker) |->
                                   Price(StakingEndBlocker, p)]
  BY TallyEnds, StakingStep DEF UpdateExchangeRates, UpdatePrices, TInv

\* A price that a tally writes has passed IsPassingVoteThreshold, which counts
\* the voters of PriceNeedsQuorum.
LEMMA TallyHasQuorum ==
    ASSUME TInv, [Next]_vars, Tallies, NEW p \in DOMAIN exchangeRates'
    PROVE  Quorum(p)
  <1> DEFINE st == StakingEndBlocker
             voters == {v \in Active(st) \cap DOMAIN votes :
                           p \in DOMAIN votes[v] /\ votes[v][p] > 0}
  <1>1. st \in [Validators -> Stakes] /\ p \in PassingPairs(st) /\ ReportsOK
    BY TalliedPrices DEF TInv
  <1>2. IsPassingVoteThreshold(Ballot(st, p), ThresholdPower(st), MinVoters)
    BY <1>1, PassingBallot
  <1>3. /\ Cardinality(voters) = NumValidVoters(Ballot(st, p))
        /\ SumFunction([v \in voters |-> Power(st[v])]) = BallotPower(Ballot(st, p))
    <2> HIDE DEF st
    <2> QED BY <1>1, VotersPower
  <1> QED BY <1>2, <1>3 DEF Quorum, IsPassingVoteThreshold

\* A price that a tally writes is the weighted median of its ballot.
LEMMA TallyFollowsMajority ==
    ASSUME TInv, [Next]_vars, Tallies, NEW p \in DOMAIN exchangeRates'
    PROVE  Majority(p)
  <1> DEFINE st == StakingEndBlocker
             b == Ballot(st, p)
  <1>1. /\ st \in [Validators -> Stakes] /\ p \in PassingPairs(st) /\ ReportsOK
        /\ exchangeRates'[p] = WeightedMedian(b)
    BY TalliedPrices DEF TInv, Price
  <1>2. IsBallot(b) /\ DOMAIN b # {}
    BY <1>1, PassingBallot
  <1> HIDE DEF b
  <1>3. \A r \in Rates(b) :
           2 * PowerOf(b, {v \in DOMAIN b : b[v].rate = r}) > BallotPower(b) + 1
              => exchangeRates'[p] = r
    BY <1>1, <1>2, MajorityIsMedian
  <1> QED BY <1>3 DEF Majority, b

\* The pairs that a faithful validator that is counted has to win are those it wins.
LEMMA FaithfulWins ==
    ASSUME ReportsOK, NEW st \in [Validators -> Stakes], NEW v \in Active(st), Faithful(st, v)
    PROVE  v \notin Missing(st, ValidatorPerformances(st))
  <1> DEFINE won == {p \in PassingPairs(st) : v \in Winners(Ballot(st, p), RewardBand)}
  <1>1. ASSUME NEW p \in whitelist
        PROVE  /\ p \in VotedPairs(st)
               /\ v \in DOMAIN Ballot(st, p)
               /\ Ballot(st, p)[v].rate = votes[v][p]
    <2>1. v \in DOMAIN votes /\ p \in DOMAIN votes[v] /\ p \in Pairs
      BY DEF Faithful, ReportsOK
    <2> QED BY <2>1 DEF Ballot, VotedPairs
  <1>2. CountedPairs(st) = PassingPairs(st)
    BY <1>1 DEF CountedPairs, PassingPairs
  <1>3. ASSUME NEW p \in PassingPairs(st)
        PROVE  v \in Winners(Ballot(st, p), RewardBand)
    <2> DEFINE b == Ballot(st, p)
    <2>1. IsBallot(b) /\ p \in whitelist
      BY PassingBallot
    <2>2. v \in DOMAIN b /\ b[v].rate = votes[v][p]
      BY <1>1, <2>1
    <2>3. votes[v][p] <= 0 \/ votes[v][p] = WeightedMedian(b)
      BY <2>1 DEF Faithful, Price
    <2> HIDE DEF b
    <2>4. b[v].rate = WeightedMedian(b) \/ Abstains(b, v)
      BY <2>2, <2>3 DEF Abstains
    <2>5. v \in Winners(b, RewardBand)
      BY <2>1, <2>2, <2>4, MedianWins
    <2> QED BY <2>5 DEF b
  <1>4. won = PassingPairs(st)
    BY <1>3
  <1>5. ValidatorPerformances(st)[v].winCount = Cardinality(won)
    BY DEF ValidatorPerformances
  <1> QED BY <1>2, <1>4, <1>5 DEF Missing

\* What FaithfulNeverMisses says of one step and one validator.
Unharmed(v) ==
    v \in DOMAIN missCounters' => v \in DOMAIN missCounters /\ missCounters'[v] = missCounters[v]

\* A validator that wins or abstains in every passing ballot is not among the
\* missing ones.
LEMMA FaithfulUnharmed ==
    ASSUME TInv, [Next]_vars, Tallies, ~ IsPeriodLastBlock(SlashWindow),
           NEW v \in DOMAIN votes, Faithful(StakingEndBlocker, v)
    PROVE  Unharmed(v)
  <1> DEFINE st == StakingEndBlocker
             missing == Missing(st, ValidatorPerformances(st))
  <1>1. st \in [Validators -> Stakes] /\ ReportsOK
    BY StakingStep DEF TInv
  <1>2. missing \subseteq Active(st)
    BY DEF Missing, ValidatorPerformances
  <1>3. v \notin missing
    BY <1>1, <1>2, FaithfulWins
  <1>4. missCounters' = MissesAfterTally(missing)
    BY TallyEnds DEF BlockEnds, EndMisses, Tallies
  <1> HIDE DEF missing
  <1>5. \A w \in DOMAIN missCounters : missCounters[w] \in Nat
    BY DEF TInv, MissesOK
  <1> QED BY <1>3, <1>4, <1>5 DEF MissesAfterTally, Unharmed

-----------------------------------------------------------------------------
(* The rewards. *)

\* A share of R in proportion to a weight, rounded down twice.
LEMMA PortionBound ==
    ASSUME NEW R \in Nat, NEW w \in Nat, NEW W \in Nat \ {0},
           NEW p, p = TruncateInt(Mul(ToDec(R), QuoInt(ToDec(w), W)))
    PROVE  p \in Nat /\ W * p <= R * w
  <1> DEFINE n == w * Scale
             q == Quot(n, W)
             m == R * q
  <1>0. Scale \in Nat \ {0}
    BY ScaleAssumption
  <1>1. n \in Nat
    BY <1>0
  <1>2. q \in Nat /\ W * q <= n
    <2> HIDE DEF n
    <2> QED BY <1>1, QuotBounds
  <1>3. Mul(ToDec(R), q) = m
    <2> HIDE DEF q
    <2> QED BY <1>2, MulExact
  <1>4. m \in Nat
    <2> HIDE DEF q
    <2> QED BY <1>2
  <1>5. p = Quot(m, Scale)
    BY <1>3 DEF TruncateInt, QuoInt, ToDec
  <1> HIDE DEF m
  <1>6. p \in Nat /\ Scale * p <= m
    BY <1>0, <1>4, <1>5, QuotBounds
  <1> HIDE DEF q, n
  <1>7. W * (Scale * p) <= W * m
    <2>1. Scale * p \in Int
      BY <1>0, <1>6
    <2> QED BY <1>4, <1>6, <2>1, Signs
  <1>8. W * m = R * (W * q)
    BY <1>2, Associate DEF m
  <1>9. R * (W * q) <= R * n
    BY <1>1, <1>2
  <1>10. R * n = Scale * (R * w)
    BY <1>0 DEF n
  <1>11. W * (Scale * p) = Scale * (W * p)
    BY <1>0, <1>6, Associate
  <1>12. W * p \in Int /\ R * w \in Int
    BY <1>6
  <1>13. Scale * (W * p) <= Scale * (R * w)
    <2>1. W * m \in Int /\ Scale * (W * p) \in Int /\ Scale * (R * w) \in Int
      BY <1>0, <1>4, <1>12
    <2> QED BY <1>7, <1>8, <1>9, <1>10, <1>11, <2>1
  <1> QED BY <1>0, <1>6, <1>12, <1>13, Signs

\* What a validator wins pairs with is a natural number.
ArePerformances(ps) ==
    /\ IsFiniteSet(DOMAIN ps) /\ DOMAIN ps \subseteq Validators
    /\ \A v \in DOMAIN ps : ps[v].rewardWeight \in Nat

\* Reward weights are sums of powers.
LEMMA PerformancesType ==
    ASSUME ReportsOK, NEW st \in [Validators -> Stakes]
    PROVE  ArePerformances(ValidatorPerformances(st))
  <1> DEFINE ps == ValidatorPerformances(st)
             won(v) == {p \in PassingPairs(st) : v \in Winners(Ballot(st, p), RewardBand)}
             powers(v) == [p \in won(v) |-> Ballot(st, p)[v].power]
  <1>1. DOMAIN ps = Active(st) /\ DOMAIN ps \subseteq Validators
    BY DEF ValidatorPerformances, Active
  <1>2. IsFiniteSet(DOMAIN ps)
    BY <1>1, FS_Subset, InputAssumption
  <1>3. ASSUME NEW v \in DOMAIN ps PROVE ps[v].rewardWeight \in Nat
    <2>1. won(v) \subseteq Pairs
      BY DEF PassingPairs, VotedPairs
    <2>2. IsFiniteSet(won(v))
      BY <2>1, FS_Subset, InputAssumption
    <2>3. \A p \in won(v) : powers(v)[p] \in Nat
      <3> SUFFICES ASSUME NEW p \in won(v) PROVE powers(v)[p] \in Nat
        OBVIOUS
      <3>1. v \in DOMAIN Ballot(st, p)
        BY DEF Winners
      <3>2. IsBallot(Ballot(st, p))
        BY BallotType
      <3> QED BY <3>1, <3>2 DEF IsBallot
    <2>4. SumFunctionOnSet(powers(v), won(v)) \in Nat
      <3> HIDE DEF powers, won
      <3> QED BY <2>2, <2>3, SumNatural
    <2>5. SumFunction(powers(v)) = SumFunctionOnSet(powers(v), won(v))
      BY DEF SumFunction
    <2>6. ps[v].rewardWeight = SumFunction(powers(v))
      BY <1>1 DEF ValidatorPerformances
    <2> QED BY <2>4, <2>5, <2>6
  <1> QED BY <1>1, <1>2, <1>3 DEF ArePerformances

\* What rewards promise is a natural number.
LEMMA PromisedType ==
    ASSUME NEW rs, AreRewards(rs)
    PROVE  Promised(rs) \in Nat
  <1> DEFINE g == [id \in DOMAIN rs |-> rs[id].periods * rs[id].coins]
  <1>1. IsFiniteSet(DOMAIN rs) /\ DOMAIN g = DOMAIN rs
    BY DEF AreRewards
  <1>2. \A id \in DOMAIN rs : g[id] \in Nat
    BY DEF AreRewards
  <1>3. Promised(rs) = SumFunctionOnSet(g, DOMAIN rs)
    BY <1>1 DEF Promised, SumFunction
  <1> HIDE DEF g
  <1> QED BY <1>1, <1>2, <1>3, SumNatural

\* What a period pays is what the rewards have for it.
LEMMA PeriodRewardsType ==
    ASSUME AreRewards(rewards)
    PROVE  /\ PeriodRewards \in Nat
           /\ Promised(rewards) \in Nat
           /\ PeriodRewards <= Promised(rewards)
  <1> DEFINE D == DOMAIN rewards
             f == [id \in D |-> rewards[id].coins]
             g == [id \in D |-> rewards[id].periods * rewards[id].coins]
  <1>1. ASSUME NEW id \in D PROVE f[id] \in Nat /\ g[id] \in Nat /\ f[id] <= g[id]
    <2>1. rewards[id].periods \in Nat \ {0} /\ rewards[id].coins \in Nat
      BY DEF AreRewards
    <2> DEFINE k == rewards[id].periods
               c == rewards[id].coins
    <2>2. f[id] = c /\ g[id] = k * c
      OBVIOUS
    <2> HIDE DEF k, c, f, g
    <2>3. k \in Nat \ {0} /\ c \in Nat
      BY <2>1 DEF k, c
    <2>4. k * c \in Nat /\ c <= k * c
      BY <2>3
    <2> QED BY <2>2, <2>3, <2>4
  <1>2. IsFiniteSet(D) /\ DOMAIN f = D /\ DOMAIN g = D
    BY DEF AreRewards
  <1>3. PeriodRewards = SumFunctionOnSet(f, D) /\ Promised(rewards) = SumFunctionOnSet(g, D)
    BY <1>2 DEF PeriodRewards, Promised, SumFunction
  <1> HIDE DEF f, g, D
  <1>4. IntOn(f, D) /\ IntOn(g, D)
    BY <1>1 DEF IntOn
  <1>5. SumFunctionOnSet(f, D) \in Nat /\ SumFunctionOnSet(g, D) \in Nat
    BY <1>1, <1>2, SumNatural
  <1>6. SumFunctionOnSet(f, D) <= SumFunctionOnSet(g, D)
    BY <1>1, <1>2, <1>4, SumLe
  <1> QED BY <1>3, <1>5, <1>6

\* The portions are natural numbers that add up to no more than the period pays.
ArePortions(portions) ==
    /\ IsFiniteSet(DOMAIN portions) /\ DOMAIN portions \subseteq Validators
    /\ \A v \in DOMAIN portions : portions[v] \in Nat
    /\ Distributed(portions) \in Nat
    /\ Distributed(portions) <= PeriodRewards

\* Nobody is paid when nobody won.
LEMMA EmptyPortions ==
    ASSUME AreRewards(rewards)
    PROVE  ArePortions(EmptyMap) /\ Distributed(EmptyMap) = 0
  <1>1. DOMAIN EmptyMap = {}
    BY DEF EmptyMap
  <1>2. SumFunctionOnSet(EmptyMap, {}) = 0
    BY SumEmpty
  <1>3. Distributed(EmptyMap) = 0
    BY <1>1, <1>2, Zenon DEF Distributed, SumFunction
  <1> QED BY <1>1, <1>3, FS_EmptySet, PeriodRewardsType DEF ArePortions

\* The portions are rounded down: together they are at most the rewards of the
\* period.
LEMMA PortionsBound ==
    ASSUME AreRewards(rewards), NEW ps, ArePerformances(ps)
    PROVE  ArePortions(Portions(ps))
  <1> DEFINE D == DOMAIN ps
             w == [v \in D |-> ps[v].rewardWeight]
             W == GetTotalRewardWeight(ps)
             R == PeriodRewards
             P == [v \in D |-> RewardPortion(ps[v].rewardWeight, W)]
  <1>1. IsFiniteSet(D) /\ D \subseteq Validators /\ \A v \in D : w[v] \in Nat
    BY DEF ArePerformances
  <1>2. W = SumFunctionOnSet(w, D)
    BY DEF GetTotalRewardWeight, SumFunction
  <1>3. R \in Nat
    BY PeriodRewardsType
  <1>4. W \in Nat
    <2> HIDE DEF w, D, W
    <2> QED BY <1>1, <1>2, SumNatural
  <1>5. CASE W = 0
    BY <1>5, EmptyPortions DEF Portions
  <1>6. CASE W # 0
    <2> DEFINE h == [v \in D |-> W * P[v]]
               k == [v \in D |-> R * w[v]]
    <2>1. ASSUME NEW v \in D PROVE P[v] \in Nat /\ W * P[v] <= R * w[v]
      <3>1. P[v] = TruncateInt(Mul(ToDec(R), QuoInt(ToDec(w[v]), W)))
        BY DEF RewardPortion
      <3>2. w[v] \in Nat /\ W \in Nat \ {0}
        BY <1>1, <1>4, <1>6
      <3> HIDE DEF P, w, W, R
      <3> QED BY <1>3, <3>1, <3>2, PortionBound
    <2>2. Portions(ps) = P
      BY <1>6 DEF Portions
    <2>3. DOMAIN P = D /\ Distributed(P) = SumFunctionOnSet(P, D)
      BY DEF Distributed, SumFunction
    <2>4. /\ \A v \in D : h[v] = W * P[v]
          /\ \A v \in D : k[v] = R * w[v]
      OBVIOUS
    <2> HIDE DEF P, w, W, R, D, h, k
    <2>5. /\ IntOn(h, D) /\ IntOn(k, D) /\ IntOn(P, D) /\ IntOn(w, D)
          /\ \A v \in D : h[v] <= k[v]
      BY <1>1, <1>3, <1>4, <2>1, <2>4 DEF IntOn
    <2>6. SumFunctionOnSet(h, D) = W * SumFunctionOnSet(P, D)
      BY <1>1, <1>4, <2>4, <2>5, SumScaled
    <2>7. SumFunctionOnSet(k, D) = R * SumFunctionOnSet(w, D)
      BY <1>1, <1>3, <2>4, <2>5, SumScaled
    <2>8. SumFunctionOnSet(h, D) <= SumFunctionOnSet(k, D)
      BY <1>1, <2>5, SumLe
    <2>9. SumFunctionOnSet(P, D) \in Nat
      BY <1>1, <2>1, SumNatural
    <2> DEFINE s == SumFunctionOnSet(P, D)
    <2> HIDE DEF s
    <2>10. W * s <= W * R
      <3>1. W * s <= R * W
        BY <1>2, <2>6, <2>7, <2>8 DEF s
      <3> QED BY <1>3, <1>4, <3>1, Associate
    <2>11. s <= R
      BY <1>3, <1>4, <1>6, <2>9, <2>10, Signs DEF s
    <2> QED BY <1>1, <2>1, <2>2, <2>3, <2>9, <2>11 DEF ArePortions, s, R
  <1> QED BY <1>5, <1>6

\* A block pays no more than the account of the oracle holds.
LEMMA EndPortionsBound ==
    ASSUME ChainOK, ReportsOK, AreRewards(rewards)
    PROVE  ArePortions(EndPortions)
  <1>1. ArePerformances(ValidatorPerformances(StakingEndBlocker))
    BY StakingStep, PerformancesType
  <1>2. ArePortions(Portions(ValidatorPerformances(StakingEndBlocker)))
    BY <1>1, PortionsBound
  <1> QED BY <1>2, EmptyPortions DEF EndPortions

\* GatherRewardsForVotePeriod takes from what is promised what the period pays.
LEMMA RewardsAfterStep ==
    ASSUME AreRewards(rewards)
    PROVE  /\ AreRewards(RewardsAfter)
           /\ Promised(RewardsAfter) = Promised(rewards) - PeriodRewards
  <1> DEFINE D == DOMAIN rewards
             E == {id \in D : rewards[id].periods # 1}
             f == [id \in D |-> rewards[id].coins]
             g == [id \in D |-> rewards[id].periods * rewards[id].coins]
             h == [id \in D |-> (rewards[id].periods - 1) * rewards[id].coins]
             r == RewardsAfter
             k == [id \in E |-> r[id].periods * r[id].coins]
  <1>1. /\ IsFiniteSet(D) /\ E \subseteq D
        /\ \A id \in D : rewards[id] \in [periods : Nat \ {0}, coins : Nat]
    BY DEF AreRewards
  <1>2. IsFiniteSet(E)
    BY <1>1, FS_Subset
  <1>3. /\ DOMAIN r = E
        /\ \A id \in E : r[id] = [rewards[id] EXCEPT !.periods = @ - 1]
    BY DEF RewardsAfter
  <1>4. ASSUME NEW id \in E
        PROVE  /\ r[id] \in [periods : Nat \ {0}, coins : Nat]
               /\ r[id].periods = rewards[id].periods - 1
               /\ r[id].coins = rewards[id].coins
    <2>1. rewards[id] \in [periods : Nat \ {0}, coins : Nat] /\ rewards[id].periods # 1
      BY <1>1
    <2>2. r[id] = [rewards[id] EXCEPT !.periods = @ - 1]
      BY <1>3
    <2> QED BY <2>1, <2>2
  <1>5. AreRewards(r)
    BY <1>2, <1>3, <1>4 DEF AreRewards
  <1>6. ASSUME NEW id \in D
        PROVE  /\ f[id] \in Int /\ g[id] \in Int /\ h[id] \in Int
               /\ h[id] = g[id] + (-1) * f[id]
               /\ id \notin E => h[id] = 0
    <2> DEFINE n == rewards[id].periods
               c == rewards[id].coins
    <2>1. n \in Nat \ {0} /\ c \in Nat
      BY <1>1
    <2>2. f[id] = c /\ g[id] = n * c /\ h[id] = (n - 1) * c /\ (id \notin E => n = 1)
      OBVIOUS
    <2> HIDE DEF n, c, f, g, h, E
    <2>3. (n - 1) * c = n * c - c
      BY <2>1
    <2> QED BY <2>1, <2>2, <2>3
  <1>7. \A id \in E : k[id] = h[id]
    BY <1>4
  <1>8. /\ Promised(rewards) = SumFunctionOnSet(g, D)
        /\ PeriodRewards = SumFunctionOnSet(f, D)
        /\ Promised(r) = SumFunctionOnSet(k, E)
    BY <1>3 DEF Promised, PeriodRewards, SumFunction
  <1> HIDE DEF f, g, h, k, D, E, r
  <1>9. IntOn(f, D) /\ IntOn(g, D) /\ IntOn(h, D) /\ IntOn(k, E)
    BY <1>1, <1>6, <1>7 DEF IntOn
  <1>10. SumFunctionOnSet(h, D) = SumFunctionOnSet(g, D) + (-1) * SumFunctionOnSet(f, D)
    BY <1>1, <1>6, <1>9, SumLinear
  <1>11. SumFunctionOnSet(h, D) = SumFunctionOnSet(h, E)
    BY <1>1, <1>6, <1>9, SumSubset
  <1>12. SumFunctionOnSet(k, E) = SumFunctionOnSet(h, E)
    BY <1>2, <1>7, <1>9, SumEqual
  <1>13. SumFunctionOnSet(f, D) \in Int /\ SumFunctionOnSet(g, D) \in Int
    BY <1>1, <1>9, SumInt
  <1>14. Promised(r) = Promised(rewards) - PeriodRewards
    BY <1>8, <1>10, <1>11, <1>12, <1>13
  <1> QED BY <1>5, <1>14 DEF r

\* What distribution owes after the portions are paid.
IsOwed(owed, portions) ==
    owed = [v \in Validators |->
               IF v \in DOMAIN portions THEN outstanding[v] + portions[v] ELSE outstanding[v]]

\* Paying the portions adds them to what distribution owes.
LEMMA OutstandingSum ==
    ASSUME outstanding \in [Validators -> Nat], NEW portions, ArePortions(portions),
           NEW owed, IsOwed(owed, portions)
    PROVE  /\ owed \in [Validators -> Nat]
           /\ SumFunction(owed) = SumFunction(outstanding) + Distributed(portions)
  <1> DEFINE V == Validators
             D == DOMAIN portions
             ext == [v \in V |-> IF v \in D THEN portions[v] ELSE 0]
  <1>1. /\ IsFiniteSet(V) /\ IsFiniteSet(D) /\ D \subseteq V
        /\ \A v \in V : outstanding[v] \in Nat
        /\ \A v \in D : portions[v] \in Nat
    BY InputAssumption DEF ArePortions
  <1>2. /\ \A v \in V : ext[v] \in Nat
        /\ \A v \in V : owed[v] = outstanding[v] + 1 * ext[v]
        /\ \A v \in V \ D : ext[v] = 0
        /\ \A v \in D : ext[v] = portions[v]
        /\ owed \in [Validators -> Nat] /\ DOMAIN owed = V
    BY <1>1 DEF IsOwed
  <1>3. /\ SumFunction(owed) = SumFunctionOnSet(owed, V)
        /\ SumFunction(outstanding) = SumFunctionOnSet(outstanding, V)
        /\ Distributed(portions) = SumFunctionOnSet(portions, D)
    BY <1>2 DEF SumFunction, Distributed
  <1> HIDE DEF V, D, ext
  <1>4. IntOn(outstanding, V) /\ IntOn(ext, V) /\ IntOn(ext, D)
    BY <1>1, <1>2 DEF IntOn
  <1>5. SumFunctionOnSet(owed, V)
            = SumFunctionOnSet(outstanding, V) + 1 * SumFunctionOnSet(ext, V)
    BY <1>1, <1>2, <1>4, SumLinear
  <1>6. SumFunctionOnSet(ext, V) = SumFunctionOnSet(ext, D)
    BY <1>1, <1>2, <1>4, SumSubset
  <1>7. SumFunctionOnSet(ext, D) = SumFunctionOnSet(portions, D)
    BY <1>1, <1>2, <1>4, SumEqual
  <1>8. SumFunctionOnSet(ext, V) \in Int
    BY <1>1, <1>4, SumInt
  <1>9. SumFunction(owed) = SumFunction(outstanding) + Distributed(portions)
    BY <1>3, <1>5, <1>6, <1>7, <1>8
  <1> QED BY <1>2, <1>9

\* What is owed is a natural number.
LEMMA OutstandingType ==
    ASSUME outstanding \in [Validators -> Nat]
    PROVE  SumFunction(outstanding) \in Nat
  <1>1. DOMAIN outstanding = Validators /\ \A v \in Validators : outstanding[v] \in Nat
    OBVIOUS
  <1>2. SumFunctionOnSet(outstanding, Validators) \in Nat
    BY <1>1, SumNatural, InputAssumption
  <1> QED BY <1>1, <1>2 DEF SumFunction

\* A transfer between two accounts.
LEMMA SendKeeps ==
    ASSUME NEW b \in [Accounts -> Nat], NEW from \in Accounts, NEW to \in Accounts, from # to,
           NEW amt \in Nat, amt <= b[from]
    PROVE  /\ Send(b, from, to, amt) \in [Accounts -> Nat]
           /\ Send(b, from, to, amt)[from] = b[from] - amt
           /\ Send(b, from, to, amt)[to] = b[to] + amt
           /\ \A a \in Accounts \ {from, to} : Send(b, from, to, amt)[a] = b[a]
  <1>1. b[from] - amt \in Nat /\ b[to] + amt \in Nat
    OBVIOUS
  <1> QED BY <1>1 DEF Send

\* rewardBallotWinners pays what the period has for the winners, and no more.
LEMMA RewardStep ==
    ASSUME FundsOK, NEW portions, ArePortions(portions), RewardBallotWinners(portions)
    PROVE  FundsOK'
  <1> DEFINE d == Distributed(portions)
  <1>0. /\ AreRewards(rewards) /\ bank \in [Accounts -> Nat] /\ outstanding \in [Validators -> Nat]
        /\ Promised(rewards) <= bank["oracle"]
        /\ SumFunction(outstanding) = bank["distribution"] - GenesisBank["distribution"]
        /\ GenesisBank["distribution"] \in Nat
    BY GenesisAssumption DEF FundsOK, RewardsBacked, Accounts
  <1>1. CASE UNCHANGED <<rewards, bank, outstanding>>
    BY <1>1 DEF FundsOK, RewardsBacked
  <1>2. CASE /\ rewards' = RewardsAfter
             /\ outstanding' = [v \in Validators |->
                   IF v \in DOMAIN portions THEN outstanding[v] + portions[v]
                   ELSE outstanding[v]]
             /\ bank' = Send(bank, "oracle", "distribution", d)
    <2>1. AreRewards(rewards') /\ Promised(rewards') = Promised(rewards) - PeriodRewards
      BY <1>0, <1>2, RewardsAfterStep
    <2>2. /\ outstanding' \in [Validators -> Nat]
          /\ SumFunction(outstanding') = SumFunction(outstanding) + d
      <3>1. IsOwed(outstanding', portions)
        BY <1>2 DEF IsOwed
      <3> QED BY <1>0, <3>1, OutstandingSum
    <2>3. /\ d \in Nat /\ d <= PeriodRewards /\ PeriodRewards \in Nat
          /\ Promised(rewards) \in Nat /\ PeriodRewards <= Promised(rewards)
      BY <1>0, PeriodRewardsType DEF ArePortions
    <2>4. bank["oracle"] \in Nat /\ bank["distribution"] \in Nat
      BY <1>0 DEF Accounts
    <2>5. d <= bank["oracle"]
      BY <1>0, <2>3, <2>4
    <2> HIDE DEF d
    <2>6. /\ bank' \in [Accounts -> Nat]
          /\ bank'["oracle"] = bank["oracle"] - d
          /\ bank'["distribution"] = bank["distribution"] + d
      <3>1. "oracle" \in Accounts /\ "distribution" \in Accounts /\ "oracle" # "distribution"
        BY DEF Accounts
      <3> QED BY <1>0, <1>2, <2>3, <2>5, <3>1, SendKeeps
    <2>7. Promised(rewards') <= bank'["oracle"]
      BY <1>0, <2>1, <2>3, <2>4, <2>6
    <2>8. SumFunction(outstanding') = bank'["distribution"] - GenesisBank["distribution"]
      <3>1. SumFunction(outstanding) \in Nat
        BY <1>0, OutstandingType
      <3> QED BY <1>0, <2>2, <2>3, <2>4, <2>6, <3>1
    <2> QED BY <2>1, <2>2, <2>6, <2>7, <2>8 DEF FundsOK, RewardsBacked
  <1> QED BY <1>1, <1>2 DEF RewardBallotWinners

\* A reward that is added promises no more than its coins: it may replace one.
LEMMA AllocateStep ==
    ASSUME AreRewards(rewards), NEW coins \in Nat, AllocateRewards(coins, 1)
    PROVE  AreRewards(rewards') /\ Promised(rewards') <= Promised(rewards) + coins
  <1> DEFINE D == DOMAIN rewards
             i == rewardsID
             r == rewards'
             E == D \cup {i}
             F == E \ {i}
             f == [id \in D |-> rewards[id].periods * rewards[id].coins]
             g == [id \in E |-> r[id].periods * r[id].coins]
  <1>1. /\ DOMAIN r = E
        /\ r[i] = [periods |-> 1, coins |-> coins]
        /\ \A id \in F : id \in D /\ r[id] = rewards[id]
    <2>1. coins \div 1 = coins
      OBVIOUS
    <2>2. r = [x \in E |-> IF x = i THEN [periods |-> 1, coins |-> coins \div 1] ELSE rewards[x]]
      BY DEF AllocateRewards, Put
    <2> QED BY <2>1, <2>2
  <1>2. /\ IsFiniteSet(D) /\ IsFiniteSet(E)
        /\ \A id \in D : rewards[id] \in [periods : Nat \ {0}, coins : Nat]
    BY FS_AddElement DEF AreRewards
  <1>3. \A id \in E : r[id] \in [periods : Nat \ {0}, coins : Nat]
    BY <1>1, <1>2
  <1>4. AreRewards(r)
    BY <1>1, <1>2, <1>3 DEF AreRewards
  <1>5. \A id \in D : f[id] \in Nat
    BY <1>2
  <1>6. /\ \A id \in E : g[id] \in Nat
        /\ g[i] = coins
        /\ \A id \in F : g[id] = f[id]
    BY <1>1, <1>3
  <1>7. Promised(rewards) = SumFunctionOnSet(f, D) /\ Promised(r) = SumFunctionOnSet(g, E)
    BY <1>1 DEF Promised, SumFunction
  <1>8. i \in E /\ F \subseteq D /\ F \subseteq E
    OBVIOUS
  <1>9. E \ {i} = F
    OBVIOUS
  <1> HIDE DEF f, g, D, E, F, i, r
  <1>10. /\ IntOn(f, D) /\ IntOn(g, E) /\ IntOn(g, F)
         /\ IsFiniteSet(F) /\ IsFiniteSet(D \ F)
         /\ \A id \in D \ F : f[id] \in Nat
    BY <1>2, <1>5, <1>6, <1>8, FS_Subset DEF IntOn
  <1>11. SumFunctionOnSet(g, E) = g[i] + SumFunctionOnSet(g, F)
    BY <1>2, <1>8, <1>9, <1>10, SumRemove
  <1>12. SumFunctionOnSet(g, F) = SumFunctionOnSet(f, F)
    BY <1>6, <1>10, SumEqual
  <1>13. SumFunctionOnSet(f, D) = SumFunctionOnSet(f, F) + SumFunctionOnSet(f, D \ F)
    BY <1>2, <1>8, <1>10, SumSplit
  <1>14. SumFunctionOnSet(f, D \ F) \in Nat
    BY <1>10, SumNatural
  <1>15. SumFunctionOnSet(g, F) \in Int
    BY <1>10, SumInt
  <1>16. Promised(r) <= Promised(rewards) + coins
    BY <1>6, <1>7, <1>11, <1>12, <1>13, <1>14, <1>15
  <1> QED BY <1>4, <1>16 DEF r

\* The week's fees are split, and the validators' part backs the reward made of it.
LEMMA WeekStep ==
    ASSUME FundsOK, AfterWeekEnd
    PROVE  FundsOK'
  <1> DEFINE pool == bank["feePool"]
             fees == ValidatorFees
             rest == pool - fees
             mid == Send(bank, "feePool", "perpEF", rest)
  <1>0. /\ AreRewards(rewards) /\ bank \in [Accounts -> Nat] /\ outstanding \in [Validators -> Nat]
        /\ Promised(rewards) <= bank["oracle"]
        /\ SumFunction(outstanding) = bank["distribution"] - GenesisBank["distribution"]
    BY DEF FundsOK, RewardsBacked
  <1>1. /\ {"feePool", "perpEF", "oracle", "distribution"} \subseteq Accounts
        /\ \A a \in Accounts : bank[a] \in Nat
    BY <1>0 DEF Accounts
  <1>2. fees \in Nat /\ fees <= pool
    <2> DEFINE m == pool * ValidatorFeeRatio
    <2>0. /\ Scale \in Nat \ {0} /\ pool \in Nat
          /\ ValidatorFeeRatio \in Nat /\ ValidatorFeeRatio <= Scale
      BY <1>1, ScaleAssumption, ParamsAssumption DEF One
    <2>1. Mul(ToDec(pool), ValidatorFeeRatio) = m
      BY <2>0, MulExact
    <2>2. fees = Quot(m, Scale)
      BY <2>1 DEF ValidatorFees, TruncateInt
    <2> HIDE DEF pool
    <2>3. m \in Nat /\ m <= Scale * pool
      BY <2>0
    <2> HIDE DEF m, fees
    <2>4. fees \in Nat /\ Scale * fees <= m
      BY <2>0, <2>2, <2>3, QuotBounds
    <2>5. Scale * fees <= Scale * pool
      <3>1. Scale * fees \in Int /\ Scale * pool \in Int
        BY <2>0, <2>4
      <3> QED BY <2>3, <2>4, <3>1
    <2> QED BY <2>0, <2>4, <2>5, Signs
  <1>3. CASE UNCHANGED rewardVars
    BY <1>3 DEF FundsOK, RewardsBacked, rewardVars
  <1>4. CASE /\ bank' = Send(mid, "feePool", "oracle", fees)
             /\ AllocateRewards(fees, 1)
             /\ outstanding' = outstanding
    <2>1. pool \in Nat /\ rest \in Nat /\ rest <= pool
      BY <1>1, <1>2
    <2> HIDE DEF rest, fees
    <2>2. /\ mid \in [Accounts -> Nat]
          /\ mid["feePool"] = pool - rest
          /\ mid["oracle"] = bank["oracle"]
          /\ mid["distribution"] = bank["distribution"]
      <3>1. /\ "feePool" \in Accounts /\ "perpEF" \in Accounts /\ "feePool" # "perpEF"
            /\ "oracle" \in Accounts \ {"feePool", "perpEF"}
            /\ "distribution" \in Accounts \ {"feePool", "perpEF"}
        BY DEF Accounts
      <3>2. bank \in [Accounts -> Nat] /\ rest \in Nat /\ rest <= bank["feePool"]
        BY <1>0, <2>1
      <3>3. /\ mid \in [Accounts -> Nat]
            /\ mid["feePool"] = bank["feePool"] - rest
            /\ \A a \in Accounts \ {"feePool", "perpEF"} : mid[a] = bank[a]
        BY <3>1, <3>2, SendKeeps, SMT
      <3> HIDE DEF mid
      <3>4. mid["oracle"] = bank["oracle"] /\ mid["distribution"] = bank["distribution"]
        BY <3>1, <3>3, Zenon
      <3> QED BY <3>3, <3>4, Zenon
    <2>3. fees <= mid["feePool"]
      BY <1>2, <2>1, <2>2 DEF rest
    <2> HIDE DEF mid
    <2>4. /\ bank' \in [Accounts -> Nat]
          /\ bank'["oracle"] = bank["oracle"] + fees
          /\ bank'["distribution"] = bank["distribution"]
      <3>1. /\ "feePool" \in Accounts /\ "oracle" \in Accounts /\ "feePool" # "oracle"
            /\ "distribution" \in Accounts \ {"feePool", "oracle"}
        BY DEF Accounts
      <3>2. /\ bank' \in [Accounts -> Nat]
            /\ bank'["oracle"] = mid["oracle"] + fees
            /\ bank'["distribution"] = mid["distribution"]
        <4> DEFINE new == Send(mid, "feePool", "oracle", fees)
        <4>1. mid \in [Accounts -> Nat] /\ fees \in Nat
          BY <1>2, <2>2
        <4>2. /\ new \in [Accounts -> Nat]
              /\ new["oracle"] = mid["oracle"] + fees
              /\ new["distribution"] = mid["distribution"]
          BY <2>3, <3>1, <4>1, SendKeeps
        <4> QED BY <1>4, <4>2
      <3> QED BY <2>2, <3>2
    <2>5. AreRewards(rewards') /\ Promised(rewards') <= Promised(rewards) + fees
      BY <1>0, <1>2, <1>4, AllocateStep
    <2>6. Promised(rewards') <= bank'["oracle"]
      <3>1. Promised(rewards) \in Int
        BY <1>0, PeriodRewardsType
      <3>2. Promised(rewards') \in Int
        BY <2>5, PromisedType
      <3> QED BY <1>0, <1>1, <1>2, <2>4, <2>5, <3>1, <3>2
    <2> QED BY <1>0, <1>4, <2>4, <2>5, <2>6 DEF FundsOK, RewardsBacked
  <1> QED BY <1>3, <1>4 DEF AfterWeekEnd

\* Fees only enter the fee pool.
LEMMA PayFeesStep ==
    ASSUME FundsOK, NEW amt \in Nat, PayFees(amt)
    PROVE  FundsOK'
  <1>1. /\ bank \in [Accounts -> Nat]
        /\ bank' = [bank EXCEPT !["feePool"] = @ + amt]
        /\ UNCHANGED <<rewards, outstanding>>
    BY DEF FundsOK, PayFees
  <1>2. /\ bank' \in [Accounts -> Nat]
        /\ bank'["oracle"] = bank["oracle"]
        /\ bank'["distribution"] = bank["distribution"]
    BY <1>1 DEF Accounts
  <1> QED BY <1>1, <1>2 DEF FundsOK, RewardsBacked

-----------------------------------------------------------------------------
(* Every step keeps the types, and no end of a block panics. *)

\* The remainder of the next number.
LEMMA NextRemainder ==
    ASSUME NEW W \in Nat \ {0}, NEW h \in Nat
    PROVE  /\ (h + 1) % W # 0 => (h + 1) % W = (h % W) + 1
           /\ (h + 1) % W = 0 => (h % W) + 1 = W
  <1> DEFINE q == h \div W
             n == (h + 1) \div W
             x == h % W
             y == (h + 1) % W
  <1>1. q \in Nat /\ x \in Nat /\ x < W /\ h = W * q + x
    BY DivMod
  <1>2. n \in Nat /\ y \in Nat /\ y < W /\ h + 1 = W * n + y
    <2>1. h + 1 \in Nat
      OBVIOUS
    <2> QED BY <2>1, DivMod
  <1>3. y # 0 => n = q
    BY SamePeriod
  <1>4. y = 0 => n = q + 1
    BY NextPeriod
  <1> HIDE DEF q, n, x, y
  <1>5. W * q \in Int /\ W * (q + 1) = W * q + W
    BY <1>1, Distribute
  <1>6. y # 0 => y = x + 1
    BY <1>1, <1>2, <1>3, <1>5
  <1>7. y = 0 => x + 1 = W
    BY <1>1, <1>2, <1>4, <1>5
  <1> QED BY <1>6, <1>7 DEF x, y

\* Heights and the windows they are in.
LEMMA Windows ==
    ASSUME NEW h \in Nat
    PROVE  /\ WindowStart(h) \in Nat
           /\ WindowStart(h) <= h /\ h < WindowStart(h) + SlashWindow
           /\ h % SlashWindow # 0 => WindowStart(h) < h
           /\ (h + 1) % SlashWindow # 0 => WindowStart(h + 1) = WindowStart(h)
  <1> DEFINE W == SlashWindow
  <1>1. W \in Nat \ {0}
    BY PeriodAssumption
  <1>2. h % W \in 0..(W - 1) /\ h % W <= h
    <2>1. /\ h \div W \in Nat /\ h % W \in Nat /\ h % W < W
          /\ h = W * (h \div W) + (h % W)
      BY <1>1, DivMod
    <2>2. W * (h \div W) \in Nat
      BY <1>1, <2>1
    <2> QED BY <1>1, <2>1, <2>2
  <1>3. (h + 1) % W # 0 => (h + 1) % W = (h % W) + 1
    BY <1>1, NextRemainder
  <1> QED BY <1>1, <1>2, <1>3 DEF WindowStart

\* The counters that the tally leaves belong to validators that staking keeps: one
\* that began to leave in this window is not removed in it.
LEMMA EndMissesOK ==
    ASSUME ChainOK, ReportsOK, MissesOK
    PROVE  /\ DOMAIN EndMisses \subseteq Validators
           /\ \A v \in DOMAIN EndMisses :
                 /\ EndMisses[v] \in Nat \ {0}
                 /\ StakingEndBlocker[v].status # "gone"
                 /\ StakingEndBlocker[v].status = "unbonding" =>
                       StakingEndBlocker[v].since > WindowStart(height)
  <1> DEFINE st == StakingEndBlocker
             missing == Missing(st, ValidatorPerformances(st))
  <1>0. /\ height \in Nat /\ UnbondingBlocks \in Nat /\ SlashWindow \in Nat
        /\ UnbondingBlocks + 1 >= SlashWindow
    BY InputAssumption, StakingAssumption, PeriodAssumption DEF ChainOK
  <1>1. ASSUME NEW v \in DOMAIN missCounters
        PROVE  /\ v \in Validators /\ missCounters[v] \in Nat \ {0}
               /\ st[v].status # "gone"
               /\ st[v].status = "unbonding" => st[v].since > WindowStart(height)
    <2>1. /\ v \in Validators /\ missCounters[v] \in Nat \ {0}
          /\ stake[v].status # "gone"
          /\ stake[v].status = "unbonding" => stake[v].since > WindowStart(height)
          /\ height % SlashWindow # 0
      BY DEF MissesOK
    <2>2. stake[v].since \in Nat
      BY <2>1 DEF ChainOK, Stakes
    <2>3. WindowStart(height) \in Nat /\ WindowStart(height) < height
          /\ height < WindowStart(height) + SlashWindow
      BY <1>0, <2>1, Windows
    <2>4. st[v].status # "gone"
      BY <1>0, <2>1, <2>2, <2>3, StakingStep
    <2>5. st[v].status = "unbonding" => st[v].since > WindowStart(height)
      BY <2>1, <2>3, StakingStep
    <2> QED BY <2>1, <2>4, <2>5
  <1>2. ASSUME NEW v \in missing
        PROVE  v \in Validators /\ st[v].status = "bonded"
    BY DEF Missing, ValidatorPerformances, Active, Bonded
  <1>3. CASE EndMisses = missCounters
    BY <1>1, <1>3
  <1>4. CASE EndMisses = MissesAfterTally(missing)
    <2> HIDE DEF missing, st
    <2>1. DOMAIN EndMisses = DOMAIN missCounters \cup missing
      BY <1>4 DEF MissesAfterTally
    <2>2. ASSUME NEW v \in DOMAIN EndMisses PROVE EndMisses[v] \in Nat \ {0}
      <3>1. EndMisses[v] = (IF v \in DOMAIN missCounters THEN missCounters[v] ELSE 0)
                           + (IF v \in missing THEN 1 ELSE 0)
        BY <1>4, <2>1 DEF MissesAfterTally
      <3>2. CASE v \in DOMAIN missCounters
        BY <1>1, <3>1, <3>2
      <3>3. CASE v \notin DOMAIN missCounters
        BY <2>1, <3>1, <3>3
      <3> QED BY <3>2, <3>3
    <2>3. ASSUME NEW v \in DOMAIN EndMisses
          PROVE  /\ v \in Validators
                 /\ st[v].status # "gone"
                 /\ st[v].status = "unbonding" => st[v].since > WindowStart(height)
      BY <1>1, <1>2, <2>1
    <2> QED BY <2>2, <2>3 DEF st
  <1> QED BY <1>3, <1>4 DEF EndMisses

\* So the end of a block never panics.
LEMMA EndBlockDoesNotPanic ==
    ASSUME TInv, EndBlock
    PROVE  BlockEnds
  <1>1. ChainOK /\ ReportsOK /\ MissesOK /\ FundsOK
    BY DEF TInv
  <1>2. Distributed(EndPortions) <= bank["oracle"] /\ Distributed(EndPortions) \in Nat
        /\ bank["oracle"] \in Nat
    <2>1. AreRewards(rewards) /\ Promised(rewards) <= bank["oracle"] /\ bank["oracle"] \in Nat
      BY <1>1 DEF FundsOK, RewardsBacked, Accounts
    <2>2. /\ Distributed(EndPortions) \in Nat /\ Distributed(EndPortions) <= PeriodRewards
          /\ PeriodRewards \in Nat /\ Promised(rewards) \in Nat
          /\ PeriodRewards <= Promised(rewards)
      BY <1>1, <2>1, EndPortionsBound, PeriodRewardsType DEF ArePortions
    <2> QED BY <2>1, <2>2
  <1>3. ~ \E v \in Failing(EndMisses) : StakingEndBlocker[v].status = "gone"
    BY <1>1, EndMissesOK DEF Failing
  <1>4. EndPanics = {}
    BY <1>2, <1>3 DEF EndPanics, Panics
  <1> QED BY <1>4, EndBlockIs

\* Slash and Jail keep the type of a validator.
LEMMA SlashType ==
    ASSUME NEW val \in Stakes
    PROVE  SlashAndJail(val) \in Stakes
  <1> DEFINE n == SlashFraction * Power(val) * PowerReduction
             left == MaxDec(0, val.tokens - TruncateInt(n))
  <1>1. /\ val.tokens \in Nat /\ PowerReduction \in Nat \ {0}
        /\ SlashFraction \in Nat /\ Scale \in Nat \ {0}
    BY StakingAssumption, ParamsAssumption, ScaleAssumption DEF Stakes, One
  <1>2. Power(val) \in Nat
    BY <1>1 DEF Power
  <1>3. n \in Nat
    BY <1>1, <1>2
  <1> HIDE DEF n
  <1>4. TruncateInt(n) \in Nat
    BY <1>1, <1>3, QuotBounds DEF TruncateInt
  <1>5. left \in Nat
    BY <1>1, <1>4 DEF MaxDec
  <1>6. SlashAndJail(val) = [val EXCEPT !.jailed = TRUE, !.tokens = left]
    BY DEF SlashAndJail, n
  <1> HIDE DEF left
  <1> QED BY <1>5, <1>6 DEF Stakes

\* The end of a block keeps the types.
LEMMA BlockEndsTyped ==
    ASSUME TInv, BlockEnds
    PROVE  TInv'
  <1> DEFINE st == StakingEndBlocker
  <1>0. /\ ChainOK /\ ReportsOK /\ PricesOK /\ MissesOK /\ FundsOK /\ halted \subseteq {"week"}
        /\ st \in [Validators -> Stakes]
        /\ height \in Nat
    BY InputAssumption, StakingStep DEF TInv, ChainOK
  <1>1. ChainOK'
    <2>1. height' \in 1..MaxHeight
      BY <1>0, InputAssumption DEF BlockEnds
    <2>2. stake' \in [Validators -> Stakes]
      <3>1. CASE stake' = st
        BY <1>0, <3>1
      <3>2. CASE stake' = [v \in Validators |->
                   IF v \in Slashed(st, EndMisses) THEN SlashAndJail(st[v]) ELSE st[v]]
        <4> HIDE DEF st
        <4>1. \A v \in Validators : st[v] \in Stakes /\ SlashAndJail(st[v]) \in Stakes
          BY <1>0, SlashType
        <4> QED BY <3>2, <4>1
      <3> QED BY <3>1, <3>2 DEF BlockEnds
    <2> QED BY <2>1, <2>2 DEF ChainOK
  <1>2. ReportsOK' /\ PricesOK'
    <2>1. CASE UNCHANGED votingVars
      BY <1>0, <2>1 DEF BlockEnds, votingVars, ReportsOK, PricesOK
    <2>2. CASE UpdateExchangeRates(st, EndPortions)
      <3>1. /\ prevotes' = [x \in PrevotesKept |-> prevotes[x]]
            /\ votes' = EmptyMap
            /\ whitelist' = whitelist \/ whitelist' = Whitelist
            /\ exchangeRates' = [p \in PassingPairs(st) |-> Price(st, p)]
            /\ feeders' = feeders /\ height' = height + 1
        BY <2>2 DEF UpdateExchangeRates, UpdatePrices, WhitelistAfter, Restrict, BlockEnds
      <3>2. DOMAIN votes' = {}
        BY <3>1 DEF EmptyMap
      <3>3. \A v \in DOMAIN prevotes' : v \in Validators /\ prevotes'[v].submit \in 1..height'
        BY <1>0, <3>1 DEF ReportsOK, PrevotesKept
      <3>4. whitelist' \subseteq Pairs
        BY <1>0, <3>1, ParamsAssumption DEF ReportsOK
      <3>5. ReportsOK'
        BY <1>0, <3>1, <3>2, <3>3, <3>4 DEF ReportsOK
      <3>6. \A p \in PassingPairs(st) : p \in Pairs /\ Price(st, p) \in Int
        BY <1>0, PassingBallot
      <3>7. PricesOK'
        BY <3>1, <3>6 DEF PricesOK
      <3> QED BY <3>5, <3>7
    <2> QED BY <2>1, <2>2 DEF BlockEnds
  <1>3. MissesOK'
    <2>1. height' = height + 1
      BY DEF BlockEnds
    <2>2. CASE IsPeriodLastBlock(SlashWindow)
      <3>1. DOMAIN missCounters' = {}
        BY <2>2 DEF BlockEnds, MissesAfterWindow, EmptyMap
      <3> QED BY <3>1 DEF MissesOK
    <2>3. CASE ~ IsPeriodLastBlock(SlashWindow)
      <3>1. stake' = st /\ missCounters' = EndMisses
        BY <2>3 DEF BlockEnds
      <3>2. (height + 1) % SlashWindow # 0
        BY <2>3 DEF IsPeriodLastBlock
      <3>3. WindowStart(height') = WindowStart(height)
        BY <1>0, <2>1, <3>2, Windows
      <3>4. /\ DOMAIN EndMisses \subseteq Validators
            /\ \A v \in DOMAIN EndMisses :
                 /\ EndMisses[v] \in Nat \ {0}
                 /\ st[v].status # "gone"
                 /\ st[v].status = "unbonding" => st[v].since > WindowStart(height)
        BY <1>0, EndMissesOK
      <3> HIDE DEF st
      <3> QED BY <2>1, <3>1, <3>2, <3>3, <3>4 DEF MissesOK
    <2> QED BY <2>2, <2>3
  <1>4. FundsOK'
    <2>1. CASE UNCHANGED <<rewards, bank, outstanding>>
      BY <1>0, <2>1 DEF FundsOK, RewardsBacked
    <2>2. CASE RewardBallotWinners(EndPortions)
      <3>1. AreRewards(rewards)
        BY <1>0 DEF FundsOK
      <3>2. ArePortions(EndPortions)
        BY <1>0, <3>1, EndPortionsBound
      <3> QED BY <1>0, <2>2, <3>2, RewardStep
    <2> QED BY <2>1, <2>2 DEF BlockEnds, UpdateExchangeRates
  <1>5. halted' \subseteq {"week"}
    BY <1>0 DEF BlockEnds
  <1> QED BY <1>1, <1>2, <1>3, <1>4, <1>5 DEF TInv

\* Genesis is typed, and its rewards are backed.
LEMMA InitTyped == ASSUME Init PROVE TInv
  <1>1. ChainOK
    <2>1. \A v \in Validators : stake[v] \in Stakes
      BY GenesisAssumption DEF Init, Stakes
    <2> QED BY <2>1, InputAssumption DEF Init, ChainOK
  <1>2. ReportsOK /\ PricesOK /\ MissesOK /\ halted \subseteq {"week"}
    <2>1. DOMAIN EmptyMap = {}
      BY DEF EmptyMap
    <2> QED BY <2>1, GenesisAssumption, ParamsAssumption
            DEF Init, ReportsOK, PricesOK, MissesOK
  <1>3. FundsOK
    <2>1. AreRewards(rewards) /\ bank \in [Accounts -> Nat] /\ Promised(rewards) <= bank["oracle"]
      BY GenesisAssumption DEF Init, AreRewards
    <2>2. outstanding = [v \in Validators |-> 0] /\ outstanding \in [Validators -> Nat]
      BY DEF Init
    <2>3. SumFunction(outstanding) = 0
      <3> DEFINE f == [v \in Validators |-> 0]
      <3>1. IntOn(f, Validators) /\ \A v \in Validators \ {} : f[v] = 0
        BY DEF IntOn
      <3>2. DOMAIN f = Validators /\ outstanding = f
        BY <2>2
      <3> HIDE DEF f
      <3>3. SumFunctionOnSet(f, Validators) = SumFunctionOnSet(f, {})
        BY <3>1, SumSubset, InputAssumption
      <3>4. SumFunctionOnSet(f, Validators) = 0
        BY <3>3, SumEmpty, Zenon
      <3> QED BY <3>2, <3>4 DEF SumFunction
    <2>4. bank["distribution"] - GenesisBank["distribution"] = 0
      BY GenesisAssumption DEF Init, Accounts
    <2> QED BY <2>1, <2>2, <2>3, <2>4 DEF FundsOK, RewardsBacked
  <1> QED BY <1>1, <1>2, <1>3 DEF TInv

\* The messages of validators change only what they report.
LEMMA MessagesTyped ==
    ASSUME TInv, NEW v \in Validators, NEW feeder, NEW report \in Reports,
           \/ AggregateExchangeRatePrevote(v, feeder, report)
           \/ AggregateExchangeRateVote(v, feeder, report)
    PROVE  TInv'
  <1>1. UNCHANGED <<height, stake, exchangeRates, whitelist, missCounters, rewardVars, halted>>
    BY DEF AggregateExchangeRatePrevote, AggregateExchangeRateVote
  <1>2. (ChainOK /\ PricesOK /\ MissesOK /\ FundsOK /\ halted \subseteq {"week"})'
    BY <1>1 DEF TInv, ChainOK, PricesOK, MissesOK, FundsOK, RewardsBacked, WindowStart,
               rewardVars
  <1>3. ReportsOK /\ height \in 1..MaxHeight /\ MaxHeight \in Nat
    BY InputAssumption DEF TInv, ChainOK
  <1>4. ASSUME AggregateExchangeRatePrevote(v, feeder, report) PROVE ReportsOK'
    BY <1>1, <1>3, <1>4 DEF AggregateExchangeRatePrevote, Put, ReportsOK
  <1>5. ASSUME AggregateExchangeRateVote(v, feeder, report) PROVE ReportsOK'
    BY <1>1, <1>3, <1>5 DEF AggregateExchangeRateVote, Put, Restrict, ReportsOK
  <1> QED BY <1>2, <1>4, <1>5 DEF TInv

\* A delegation changes only the feeders.
LEMMA DelegateTyped ==
    ASSUME TInv, NEW v \in Validators, NEW feeder, DelegateFeedConsent(v, feeder)
    PROVE  TInv'
  <1>1. UNCHANGED <<height, stake, votingVars, missCounters, rewardVars, halted>>
    BY DEF DelegateFeedConsent
  <1>2. DOMAIN feeders' \subseteq Validators
    BY DEF DelegateFeedConsent, Put, TInv, ReportsOK
  <1> QED BY <1>1, <1>2 DEF TInv, ChainOK, ReportsOK, PricesOK, MissesOK, FundsOK, RewardsBacked,
                            WindowStart, votingVars, rewardVars

\* Staking's messages change one validator's stake.
LEMMA StakingTyped ==
    ASSUME TInv, NEW v \in Validators, Undelegate(v) \/ Unjail(v)
    PROVE  TInv'
  <1>1. UNCHANGED <<height, feeders, votingVars, missCounters, rewardVars, halted>>
    BY DEF Undelegate, Unjail
  <1>2. (ReportsOK /\ PricesOK /\ FundsOK /\ halted \subseteq {"week"})'
    BY <1>1 DEF TInv, ReportsOK, PricesOK, FundsOK, RewardsBacked, rewardVars, votingVars
  <1>3. /\ stake' \in [Validators -> Stakes]
        /\ \A w \in Validators : /\ stake'[w].status = stake[w].status
                                  /\ stake'[w].since = stake[w].since
    <2>1. stake \in [Validators -> Stakes]
      BY DEF TInv, ChainOK
    <2>2. CASE stake' = [stake EXCEPT ![v].tokens = 0]
      BY <2>1, <2>2 DEF Stakes
    <2>3. CASE stake' = [stake EXCEPT ![v].jailed = FALSE]
      BY <2>1, <2>3 DEF Stakes
    <2> QED BY <2>2, <2>3 DEF Undelegate, Unjail
  <1>4. ChainOK'
    BY <1>1, <1>3 DEF TInv, ChainOK
  <1>5. MissesOK'
    BY <1>1, <1>3 DEF TInv, MissesOK, WindowStart
  <1> QED BY <1>2, <1>4, <1>5 DEF TInv

\* The week's end and the fees change only the funds.
LEMMA FundingTyped ==
    ASSUME TInv, AfterWeekEnd \/ \E amt \in Fees : PayFees(amt)
    PROVE  TInv'
  <1>1. UNCHANGED <<height, stake, feeders, votingVars, missCounters>>
    BY DEF AfterWeekEnd, PayFees
  <1>2. (ChainOK /\ ReportsOK /\ PricesOK /\ MissesOK)'
    BY <1>1 DEF TInv, ChainOK, ReportsOK, PricesOK, MissesOK, WindowStart, votingVars
  <1>3. FundsOK'
    BY WeekStep, PayFeesStep, InputAssumption DEF TInv
  <1>4. halted' \subseteq {"week"}
    BY DEF AfterWeekEnd, PayFees, TInv
  <1> QED BY <1>2, <1>3, <1>4 DEF TInv

\* A restart keeps the rewards and what backs them.
LEMMA RestartTyped ==
    ASSUME TInv, Restart
    PROVE  TInv'
  <1>1. /\ UNCHANGED <<height, stake, feeders, prevotes, votes, exchangeRates, missCounters,
                       rewards, bank, outstanding, halted>>
        /\ whitelist' = whitelist \/ whitelist' = Whitelist
    BY DEF Restart
  <1>2. (ChainOK /\ PricesOK /\ MissesOK /\ FundsOK /\ halted \subseteq {"week"})'
    BY <1>1 DEF TInv, ChainOK, PricesOK, MissesOK, FundsOK, RewardsBacked, WindowStart
  <1>3. ReportsOK'
    BY <1>1, ParamsAssumption DEF TInv, ReportsOK
  <1> QED BY <1>2, <1>3 DEF TInv

\* Every step keeps the types and what backs the rewards.
LEMMA NextTyped == ASSUME TInv, [Next]_vars PROVE TInv'
  <1>1. CASE UNCHANGED vars
    BY <1>1 DEF vars, votingVars, rewardVars, TInv, ChainOK, ReportsOK, PricesOK, MissesOK,
                FundsOK, RewardsBacked, WindowStart
  <1>2. CASE EndBlock
    BY <1>2, EndBlockDoesNotPanic, BlockEndsTyped
  <1>3. ASSUME NEW v \in Validators, NEW feeder \in Feeders, NEW report \in Reports,
               \/ AggregateExchangeRatePrevote(v, feeder, report)
               \/ AggregateExchangeRateVote(v, feeder, report)
        PROVE  TInv'
    BY <1>3, MessagesTyped
  <1>4. ASSUME NEW d \in Delegations, DelegateFeedConsent(d[1], d[2]) PROVE TInv'
    BY <1>4, DelegateTyped, InputAssumption
  <1>5. CASE AfterWeekEnd \/ \E amt \in Fees : PayFees(amt)
    BY <1>5, FundingTyped
  <1>6. ASSUME NEW v \in Leavers, Undelegate(v) PROVE TInv'
    BY <1>6, StakingTyped, InputAssumption
  <1>7. ASSUME NEW v \in Validators, Unjail(v) PROVE TInv'
    BY <1>7, StakingTyped
  <1>8. CASE Restart
    BY <1>8, RestartTyped
  <1> QED BY <1>1, <1>2, <1>3, <1>4, <1>5, <1>6, <1>7, <1>8 DEF Next

-----------------------------------------------------------------------------
(* Slashing: the counters against what validators really did. *)

\* The tallies in this window are no more than its vote periods that are over, and a
\* validator has no more misses than it has faults.
WindowOK ==
    /\ {"tallies", "faults"} \subseteq DOMAIN history
    /\ history.tallies \in Nat
    /\ history.faults \in [Validators -> Nat]
    /\ history.tallies <= (height % SlashWindow) \div VotePeriod
    /\ \A v \in DOMAIN missCounters : missCounters[v] <= history.faults[v]

\* A multiple of the divisor changes no remainder.
LEMMA SameRemainder ==
    ASSUME NEW V \in Nat \ {0}, NEW k \in Nat, NEW x \in Nat
    PROVE  (V * k + x) % V = x % V
  <1> DEFINE a == V * k + x
             q == x \div V
             s == x % V
             n == a \div V
             z == a % V
  <1>1. q \in Nat /\ s \in Nat /\ s < V /\ x = V * q + s
    BY DivMod
  <1>2. a \in Nat
    OBVIOUS
  <1>3. n \in Nat /\ z \in Nat /\ z < V /\ a = V * n + z
    <2> HIDE DEF a
    <2> QED BY <1>2, DivMod
  <1>4. a = V * (k + q) + s
    BY <1>1
  <1> HIDE DEF a, q, s, n, z
  <1>5. k + q \in Int
    BY <1>1
  <1>6. V * (n - (k + q)) = s - z
    BY <1>1, <1>3, <1>4, <1>5
  <1> DEFINE d == n - (k + q)
  <1>7. d \in Int
    BY <1>3, <1>5
  <1> HIDE DEF d
  <1>8. V * d = s - z
    BY <1>6 DEF d
  <1>9. d = 0
    <2>1. d >= 1 => V * d >= V
      BY <1>7
    <2>2. d <= -1 => V * d <= -V
      BY <1>7
    <2>3. V * d < V /\ V * d > -V
      BY <1>1, <1>3, <1>8
    <2>4. V * d \in Int
      BY <1>7
    <2> QED BY <1>7, <2>1, <2>2, <2>3, <2>4
  <1>10. s = z
    BY <1>1, <1>3, <1>8, <1>9
  <1> QED BY <1>10 DEF s, z, a

\* Blocks that end a vote period, in a window of whole periods.
LEMMA PeriodsOfWindow ==
    ASSUME NEW V \in Nat \ {0}, NEW W \in Nat \ {0}, W % V = 0, NEW h \in Nat
    PROVE  /\ (h + 1) % W = 0 => /\ (h + 1) % V = 0
                                 /\ (h % W) \div V + 1 = W \div V
           /\ (h + 1) % W # 0 => /\ (h + 1) % V # 0 =>
                                       ((h + 1) % W) \div V = (h % W) \div V
                                 /\ (h + 1) % V = 0 =>
                                       ((h + 1) % W) \div V = (h % W) \div V + 1
  <1> DEFINE r == h % W
             q == h \div W
             N == W \div V
  <1>1. /\ r \in Nat /\ q \in Nat /\ N \in Nat
        /\ h = W * q + r
        /\ W = V * N
    BY DivMod
  <1>2. (h + 1) % V = (r + 1) % V
    <2> HIDE DEF r, q, N
    <2>1. W * q = V * (N * q)
      BY <1>1, Associate
    <2>2. N * q \in Nat /\ r + 1 \in Nat
      BY <1>1
    <2>3. h + 1 = V * (N * q) + (r + 1)
      <3>1. V * (N * q) \in Int
        BY <2>2
      <3> QED BY <1>1, <2>1, <3>1
    <2>4. (V * (N * q) + (r + 1)) % V = (r + 1) % V
      BY <2>2, SameRemainder
    <2> QED BY <2>3, <2>4
  <1>3. /\ (h + 1) % W # 0 => (h + 1) % W = r + 1
        /\ (h + 1) % W = 0 => r + 1 = W
    BY NextRemainder
  <1>4. /\ (r + 1) % V # 0 => (r + 1) \div V = r \div V
        /\ (r + 1) % V = 0 => (r + 1) \div V = r \div V + 1
    <2> HIDE DEF r
    <2> QED BY <1>1, SamePeriod, NextPeriod
  <1> HIDE DEF r
  <1>5. CASE (h + 1) % W = 0
    BY <1>2, <1>3, <1>4, <1>5 DEF r
  <1>6. CASE (h + 1) % W # 0
    BY <1>2, <1>3, <1>4, <1>6 DEF r
  <1> QED BY <1>5, <1>6

\* What the actions that end no block leave alone.
Untallied ==
    /\ UNCHANGED <<height, missCounters>>
    /\ {"tallies", "faults"} \subseteq DOMAIN history'
    /\ history'.tallies = history.tallies /\ history'.faults = history.faults

\* A step that neither tallies nor resets counters keeps the bound.
LEMMA UntalliedKeeps == ASSUME WindowOK, Untallied PROVE WindowOK'
  BY DEF WindowOK, Untallied

\* Genesis has no misses and no tallies.
LEMMA InitWindow == ASSUME Init PROVE WindowOK
  <1>1. height = 1 /\ DOMAIN missCounters = {}
    BY DEF Init, EmptyMap
  <1>2. /\ history = [commit |-> EmptyMap, tallies |-> 0, faults |-> [v \in Validators |-> 0],
                      paid |-> 0, weeks |-> 0]
    BY DEF Init
  <1>3. height % SlashWindow \in Nat
    BY <1>1, PeriodAssumption
  <1>4. (height % SlashWindow) \div VotePeriod \in Nat
    BY <1>3, PeriodAssumption
  <1> QED BY <1>1, <1>2, <1>4 DEF WindowOK

\* Every miss of a tally is a fault of a validator that was counted.
LEMMA MissesAreFaults ==
    ASSUME TInv, WindowOK,
           NEW v \in DOMAIN EndMisses
    PROVE  /\ v \in Validators
           /\ EndMisses[v] \in Nat
           /\ EndMisses[v] <= history.faults[v]
                 + (IF /\ IsPeriodLastBlock(VotePeriod)
                       /\ v \in Active(StakingEndBlocker)
                       /\ ~ Faithful(StakingEndBlocker, v) THEN 1 ELSE 0)
  <1> DEFINE st == StakingEndBlocker
             missing == Missing(st, ValidatorPerformances(st))
             fault == IF /\ IsPeriodLastBlock(VotePeriod)
                         /\ v \in Active(st)
                         /\ ~ Faithful(st, v) THEN 1 ELSE 0
  <1>0. ChainOK /\ ReportsOK /\ MissesOK /\ st \in [Validators -> Stakes]
    BY StakingStep DEF TInv
  <1>1. v \in Validators /\ EndMisses[v] \in Nat
    BY <1>0, EndMissesOK
  <1>2. v \in DOMAIN missCounters => missCounters[v] \in Nat /\ missCounters[v] <= history.faults[v]
    BY <1>0 DEF WindowOK, MissesOK
  <1>3. history.faults[v] \in Nat /\ fault \in {0, 1}
    BY <1>1 DEF WindowOK
  <1>4. v \in missing => v \in Active(st) /\ ~ Faithful(st, v)
    <2>1. v \in missing => v \in Active(st)
      BY DEF Missing, ValidatorPerformances
    <2> QED BY <1>0, <2>1, FaithfulWins
  <1>5. CASE ~ IsPeriodLastBlock(VotePeriod)
    <2>1. EndMisses = missCounters
      BY <1>5 DEF EndMisses
    <2> QED BY <1>1, <1>2, <1>3, <2>1
  <1>6. CASE IsPeriodLastBlock(VotePeriod)
    <2>1. /\ v \in DOMAIN missCounters \cup missing
          /\ EndMisses[v] = (IF v \in DOMAIN missCounters THEN missCounters[v] ELSE 0)
                            + (IF v \in missing THEN 1 ELSE 0)
      BY <1>6 DEF EndMisses, MissesAfterTally
    <2>2. v \in missing => fault = 1
      BY <1>4, <1>6
    <2> HIDE DEF fault, missing
    <2>3. EndMisses[v] <= history.faults[v] + fault
      BY <1>2, <1>3, <2>1, <2>2
    <2> QED BY <1>1, <2>3 DEF fault
  <1> QED BY <1>5, <1>6

\* The end of a block counts a tally and its faults, or begins a new window.
LEMMA BlockEndsWindow ==
    ASSUME SlashWindow % VotePeriod = 0, TInv, WindowOK, BlockEnds
    PROVE  WindowOK'
  <1> DEFINE st == StakingEndBlocker
             tallied == IsPeriodLastBlock(VotePeriod)
             ended == IsPeriodLastBlock(SlashWindow)
             faulty == IF tallied THEN {v \in Active(st) : ~ Faithful(st, v)} ELSE {}
  <1>0. /\ height \in Nat /\ VotePeriod \in Nat \ {0} /\ SlashWindow \in Nat \ {0}
        /\ height' = height + 1
    BY InputAssumption, PeriodAssumption DEF TInv, ChainOK, BlockEnds
  <1>1. /\ {"tallies", "faults"} \subseteq DOMAIN history'
        /\ history'.tallies = IF ended THEN 0
                              ELSE IF tallied THEN history.tallies + 1 ELSE history.tallies
        /\ history'.faults = [v \in Validators |->
               IF ended THEN 0
               ELSE IF v \in faulty THEN history.faults[v] + 1 ELSE history.faults[v]]
    BY DEF BlockEnds, HistoryAfter, WindowOK
  <1>2. /\ history.tallies \in Nat
        /\ history.faults \in [Validators -> Nat]
        /\ history.tallies <= (height % SlashWindow) \div VotePeriod
    BY DEF WindowOK
  <1>3. /\ (height % SlashWindow) \div VotePeriod \in Nat
        /\ (height' % SlashWindow) \div VotePeriod \in Nat
    BY <1>0
  <1> HIDE DEF faulty
  <1>4. history'.tallies \in Nat /\ history'.faults \in [Validators -> Nat]
    BY <1>1, <1>2
  <1>5. history'.tallies <= (height' % SlashWindow) \div VotePeriod
    <2>1. CASE ended
      BY <1>1, <1>3, <2>1
    <2>2. CASE ~ ended
      <3>1. (height + 1) % SlashWindow # 0
        BY <2>2 DEF IsPeriodLastBlock
      <3>2. /\ ~ tallied => ((height + 1) % SlashWindow) \div VotePeriod
                               = (height % SlashWindow) \div VotePeriod
            /\ tallied => ((height + 1) % SlashWindow) \div VotePeriod
                               = (height % SlashWindow) \div VotePeriod + 1
        BY <1>0, <3>1, PeriodsOfWindow DEF IsPeriodLastBlock
      <3> QED BY <1>0, <1>1, <1>2, <1>3, <2>2, <3>2
    <2> QED BY <2>1, <2>2
  <1>6. \A v \in DOMAIN missCounters' : missCounters'[v] <= history'.faults[v]
    <2>1. CASE ended
      <3>1. DOMAIN missCounters' = {}
        BY <2>1 DEF BlockEnds, MissesAfterWindow, EmptyMap
      <3> QED BY <3>1
    <2>2. CASE ~ ended
      <3>1. missCounters' = EndMisses
        BY <2>2 DEF BlockEnds
      <3> SUFFICES ASSUME NEW v \in DOMAIN EndMisses
                   PROVE  EndMisses[v] <= history'.faults[v]
        BY <3>1
      <3>2. /\ v \in Validators
            /\ EndMisses[v] <= history.faults[v] + (IF v \in faulty THEN 1 ELSE 0)
        BY MissesAreFaults DEF faulty
      <3>3. history'.faults[v] = IF v \in faulty THEN history.faults[v] + 1
                                 ELSE history.faults[v]
        BY <1>1, <2>2, <3>2
      <3>4. history.faults[v] \in Nat
        BY <1>2, <3>2
      <3> QED BY <3>2, <3>3, <3>4
    <2> QED BY <2>1, <2>2
  <1> QED BY <1>1, <1>4, <1>5, <1>6 DEF WindowOK

\* Every step keeps the counts.
LEMMA NextWindow ==
    ASSUME SlashWindow % VotePeriod = 0, TInv, WindowOK, [Next]_vars
    PROVE  WindowOK'
  <1>0. {"tallies", "faults"} \subseteq DOMAIN history
    BY DEF WindowOK
  <1>1. CASE EndBlock
    BY <1>1, EndBlockDoesNotPanic, BlockEndsWindow
  <1>2. CASE UNCHANGED vars
    <2>1. Untallied
      BY <1>0, <1>2 DEF vars, Untallied
    <2> QED BY <2>1, UntalliedKeeps
  <1>3. ASSUME NEW v, NEW feeder, NEW report,
               \/ AggregateExchangeRatePrevote(v, feeder, report)
               \/ AggregateExchangeRateVote(v, feeder, report)
        PROVE  Untallied
    BY <1>0, <1>3 DEF AggregateExchangeRatePrevote, AggregateExchangeRateVote, Untallied
  <1>4. ASSUME NEW d \in Delegations, DelegateFeedConsent(d[1], d[2]) PROVE Untallied
    BY <1>0, <1>4 DEF DelegateFeedConsent, Untallied
  <1>5. ASSUME AfterWeekEnd PROVE Untallied
    BY <1>0, <1>5 DEF AfterWeekEnd, Untallied
  <1>6. ASSUME NEW amt, PayFees(amt) PROVE Untallied
    BY <1>0, <1>6 DEF PayFees, Untallied
  <1>7. ASSUME NEW v, Undelegate(v) \/ Unjail(v) PROVE Untallied
    BY <1>0, <1>7 DEF Undelegate, Unjail, Untallied
  <1>8. ASSUME Restart PROVE Untallied
    BY <1>0, <1>8 DEF Restart, Untallied
  <1> QED BY <1>1, <1>2, <1>3, <1>4, <1>5, <1>6, <1>7, <1>8, UntalliedKeeps DEF Next

\* Staking's EndBlocker jails nobody.
LEMMA StakingJailsNobody ==
    ASSUME ChainOK, NEW v \in Validators
    PROVE  StakingEndBlocker[v].jailed = stake[v].jailed
  <1> DEFINE after == StakingEndBlocker[v]
  <1>1. stake[v] \in Stakes
    BY DEF ChainOK
  <1>2. \/ after = [stake[v] EXCEPT !.status = "unbonding", !.since = height]
        \/ after = [stake[v] EXCEPT !.status = "bonded"]
        \/ after = [stake[v] EXCEPT !.status = "gone"]
        \/ after = stake[v]
    BY DEF StakingEndBlocker
  <1> HIDE DEF after
  <1>3. after.jailed = stake[v].jailed
    BY <1>1, <1>2 DEF Stakes
  <1> QED BY <1>3 DEF after

\* A rate of valid votes below the minimum, over all the periods of the window, is one
\* over the tallies there were and the faults that were made.
LEMMA RateBelow ==
    ASSUME NEW N \in Nat \ {0}, NEW T \in Nat, T <= N, NEW m \in Nat, NEW F \in Nat, m <= F,
           QuoInt(ToDec(N - m), N) < MinValidPerWindow
    PROVE  ToDec(T - F) < MinValidPerWindow * T
  <1> DEFINE x == (N - m) * Scale
             q == Quot(x, N)
             M == MinValidPerWindow
  <1>0. Scale \in Nat \ {0} /\ M \in Nat /\ M <= Scale
    BY ScaleAssumption, ParamsAssumption DEF One
  <1>1. x \in Int /\ q < M
    BY <1>0 DEF QuoInt, ToDec
  <1>2. x < N * M
    <2>1. CASE m <= N
      <3>1. x \in Nat
        BY <1>0, <2>1
      <3> HIDE DEF x
      <3>2. q \in Nat /\ x < N * (q + 1)
        BY <3>1, QuotBounds
      <3> HIDE DEF q
      <3>3. N * (q + 1) <= N * M
        <4>1. q + 1 \in Int /\ q + 1 <= M
          BY <1>0, <1>1, <3>2
        <4> QED BY <1>0, <4>1, Signs
      <3>4. N * (q + 1) \in Int /\ N * M \in Int
        BY <1>0, <3>2
      <3> QED BY <1>1, <3>2, <3>3, <3>4
    <2>2. CASE m > N
      <3>1. x < 0
        BY <1>0, <2>2
      <3>2. N * M \in Nat
        BY <1>0
      <3> HIDE DEF x
      <3> QED BY <1>1, <3>1, <3>2
    <2> QED BY <2>1, <2>2
  <1>3. (T - F) * Scale <= (T - m) * Scale
    <2> DEFINE a == T - F
               b == T - m
    <2>1. a \in Int /\ b \in Int /\ a <= b
      OBVIOUS
    <2> HIDE DEF a, b
    <2>2. Scale * a <= Scale * b
      BY <1>0, <2>1, Signs
    <2>3. a * Scale <= b * Scale
      BY <1>0, <2>1, <2>2, Associate
    <2> QED BY <2>3 DEF a, b
  <1> DEFINE k == N - T
  <1>4. k \in Nat /\ T = N - k
    OBVIOUS
  <1> HIDE DEF k
  <1>5. (T - m) * Scale = x - k * Scale
    BY <1>0, <1>4
  <1>6. M * T = N * M - k * M
    BY <1>0, <1>4
  <1>7. k * M <= k * Scale
    BY <1>0, <1>4
  <1> HIDE DEF x
  <1>8. k * M \in Int /\ k * Scale \in Int /\ N * M \in Int
    BY <1>0, <1>4
  <1>9. (T - F) * Scale \in Int
    BY <1>0
  <1> QED BY <1>1, <1>2, <1>3, <1>5, <1>6, <1>7, <1>8, <1>9 DEF ToDec

\* The step that jails a validator slashes one that failed.
LEMMA OnlyFailingJailed ==
    ASSUME SlashWindow % VotePeriod = 0, TInv, WindowOK, [Next]_vars, NEW v \in Validators,
           stake'[v].jailed, ~ stake[v].jailed,
           NEW last, last = IF IsPeriodLastBlock(VotePeriod) THEN 1 ELSE 0,
           NEW tallies, tallies = history.tallies + last,
           NEW faults, faults = history.faults[v]
                                + (IF Faithful(StakingEndBlocker, v) THEN 0 ELSE last)
    PROVE  ToDec(tallies - faults) < MinValidPerWindow * tallies
  <1> DEFINE st == StakingEndBlocker
             W == SlashWindow
             V == VotePeriod
  <1>0. /\ height \in Nat /\ V \in Nat \ {0} /\ W \in Nat \ {0}
        /\ stake \in [Validators -> Stakes] /\ ChainOK
    BY InputAssumption, PeriodAssumption DEF TInv, ChainOK
  <1>1. EndBlock
    <2>1. ~ UNCHANGED stake
      OBVIOUS
    <2>2. ~ UNCHANGED vars
      BY <2>1 DEF vars
    <2>3. ASSUME NEW w, Undelegate(w) PROVE FALSE
      <3>1. stake' = [stake EXCEPT ![w].tokens = 0]
        BY <2>3 DEF Undelegate
      <3>2. stake'[v].jailed = stake[v].jailed
        BY <1>0, <3>1 DEF Stakes
      <3> QED BY <3>2
    <2>4. ASSUME NEW w, Unjail(w) PROVE FALSE
      <3>1. stake' = [stake EXCEPT ![w].jailed = FALSE]
        BY <2>4 DEF Unjail
      <3>2. stake'[v].jailed = stake[v].jailed \/ stake'[v].jailed = FALSE
        BY <1>0, <3>1 DEF Stakes
      <3> QED BY <3>2
    <2>5. ASSUME NEW w, NEW feeder, NEW report,
                 \/ AggregateExchangeRatePrevote(w, feeder, report)
                 \/ AggregateExchangeRateVote(w, feeder, report)
          PROVE  FALSE
      BY <2>1, <2>5 DEF AggregateExchangeRatePrevote, AggregateExchangeRateVote
    <2>6. ASSUME NEW d, DelegateFeedConsent(d[1], d[2]) PROVE FALSE
      BY <2>1, <2>6 DEF DelegateFeedConsent
    <2>7. ASSUME NEW amt, PayFees(amt) PROVE FALSE
      BY <2>1, <2>7 DEF PayFees
    <2>8. ~ AfterWeekEnd /\ ~ Restart
      BY <2>1 DEF AfterWeekEnd, Restart
    <2> QED BY <2>2, <2>3, <2>4, <2>5, <2>6, <2>7, <2>8 DEF Next
  <1>2. BlockEnds
    BY <1>1, EndBlockDoesNotPanic
  <1>3. ~ st[v].jailed
    BY <1>0, StakingJailsNobody
  <1>4. IsPeriodLastBlock(W) /\ v \in Slashed(st, EndMisses)
    <2>1. CASE stake' = st
      BY <1>3, <2>1
    <2>2. CASE /\ IsPeriodLastBlock(W)
               /\ stake' = [w \in Validators |->
                     IF w \in Slashed(st, EndMisses) THEN SlashAndJail(st[w]) ELSE st[w]]
      BY <1>3, <2>2
    <2> QED BY <1>2, <2>1, <2>2 DEF BlockEnds
  <1>5. /\ v \in DOMAIN EndMisses
        /\ ValidVoteRate(EndMisses[v]) < MinValidPerWindow
        /\ v \in Active(st)
    BY <1>4 DEF Slashed, Failing, Active
  <1>6. /\ (height + 1) % V = 0
        /\ (height % W) \div V + 1 = W \div V
    BY <1>0, <1>4, PeriodsOfWindow DEF IsPeriodLastBlock
  <1>7. last = 1
    BY <1>6 DEF IsPeriodLastBlock
  <1> DEFINE N == W \div V
             m == EndMisses[v]
  <1>8. N \in Nat \ {0} /\ tallies \in Nat /\ tallies <= N
    <2>1. (height % W) \div V \in Nat
      BY <1>0
    <2>2. history.tallies \in Nat /\ history.tallies <= (height % W) \div V
      BY DEF WindowOK
    <2> QED BY <1>6, <1>7, <2>1, <2>2
  <1>9. m \in Nat /\ faults \in Nat /\ m <= faults
    <2>1. /\ m \in Nat
          /\ m <= history.faults[v]
                  + (IF /\ IsPeriodLastBlock(VotePeriod)
                        /\ v \in Active(st)
                        /\ ~ Faithful(st, v) THEN 1 ELSE 0)
      BY <1>5, MissesAreFaults
    <2>2. history.faults[v] \in Nat
      BY DEF WindowOK
    <2> HIDE DEF m
    <2> QED BY <1>5, <1>6, <1>7, <2>1, <2>2 DEF IsPeriodLastBlock
  <1>10. QuoInt(ToDec(N - m), N) < MinValidPerWindow
    BY <1>5 DEF ValidVoteRate, VotePeriodsPerWindow
  <1> HIDE DEF N, m
  <1> QED BY <1>8, <1>9, <1>10, RateBelow

-----------------------------------------------------------------------------
(* The theorems on tallies, rewards and slashing. *)

\* The types and what backs the rewards are invariant.
LEMMA AlwaysTyped == Spec => []TInv
  <1>1. Init => TInv
    BY InitTyped
  <1>2. TInv /\ [Next]_vars => TInv'
    BY NextTyped
  <1> QED BY <1>1, <1>2, PTL DEF Spec

\* rewardBallotWinners and GatherRewardsForVotePeriod never pay out more than came in,
\* whatever the rewards, weights and fees, and across restarts that reuse an id: the
\* account of the oracle covers every reward that is still to be paid.
THEOREM RewardsAlwaysBacked == Spec => []RewardsBacked
  <1>1. TInv => RewardsBacked
    BY DEF TInv, FundsOK
  <1> QED BY <1>1, AlwaysTyped, PTL

\* The end of a block panics neither when the winners are paid nor when the counters
\* are judged (SlashAndResetMissCounters), for every vote period, slash window and set
\* of validators, with an unbonding time that is no shorter than the window.
THEOREM EndBlockAlwaysEnds == Spec => []EndBlockNeverPanics
  <1>1. TInv => EndBlockNeverPanics
    <2> SUFFICES ASSUME TInv PROVE EndBlockNeverPanics
      OBVIOUS
    <2>1. \A v \in Validators : /\ stake[v].status \in {"bonded", "unbonding", "gone"}
                                /\ stake[v].jailed \in BOOLEAN
                                /\ stake[v].tokens \in Nat
                                /\ outstanding[v] \in Nat
      BY DEF TInv, ChainOK, FundsOK, Stakes
    <2>2. \A id \in DOMAIN rewards : rewards[id].periods \in Nat \ {0}
      BY DEF TInv, FundsOK, AreRewards
    <2>3. \A a \in Accounts : bank[a] \in Nat
      BY DEF TInv, FundsOK
    <2>4. TypeOK
      BY <2>1, <2>2, <2>3 DEF TypeOK, TInv, ChainOK, ReportsOK, PricesOK, MissesOK
    <2> QED BY <2>4 DEF EndBlockNeverPanics, TInv
  <1> QED BY <1>1, AlwaysTyped, PTL

\* removeInvalidBallots and UpdatePrices set a price only for a pair on which enough
\* bonded validators, with enough of the bonded power, revealed a positive rate: the
\* abstentions that a ballot holds add nothing to either.
THEOREM EveryPriceHasQuorum == Spec => PriceNeedsQuorum
  <1>1. TInv /\ [Next]_vars => [Tallies => \A p \in DOMAIN exchangeRates' : Quorum(p)]_vars
    BY TallyHasQuorum
  <1>2. TInv /\ [Next]_vars =>
           [Tallies =>
             \A p \in DOMAIN exchangeRates' :
                LET st == StakingEndBlocker
                    voters == {v \in Active(st) \cap DOMAIN votes :
                                  p \in DOMAIN votes[v] /\ votes[v][p] > 0}
                IN  /\ Cardinality(voters) >= MinVoters
                    /\ SumFunction([v \in voters |-> Power(st[v])]) >= ThresholdPower(st)]_vars
    BY <1>1, Zenon DEF Quorum
  <1> QED BY <1>2, AlwaysTyped, PTL DEF Spec, PriceNeedsQuorum

\* The weighted median is the rate of any group of validators with more than half of
\* the voting power, by more than one unit, whatever the others report.
THEOREM MajorityAlwaysDecides == Spec => MajorityDecides
  <1>1. TInv /\ [Next]_vars => [Tallies => \A p \in DOMAIN exchangeRates' : Majority(p)]_vars
    BY TallyFollowsMajority
  <1>2. TInv /\ [Next]_vars =>
           [Tallies =>
             \A p \in DOMAIN exchangeRates' :
                LET b == Ballot(StakingEndBlocker, p) IN
                \A r \in Rates(b) :
                   2 * PowerOf(b, {v \in DOMAIN b : b[v].rate = r}) > BallotPower(b) + 1
                      => exchangeRates'[p] = r]_vars
    BY <1>1, Zenon DEF Majority
  <1> QED BY <1>2, AlwaysTyped, PTL DEF Spec, MajorityDecides

\* registerMissedVotes counts no miss of a validator that revealed, for each pair of the
\* whitelist, the price or an abstention, whatever the others reveal.
THEOREM FaithfulAreNotCounted == Spec => FaithfulNeverMisses
  <1>1. TInv /\ [Next]_vars =>
           [(Tallies /\ ~ IsPeriodLastBlock(SlashWindow)) =>
               \A v \in DOMAIN votes : Faithful(StakingEndBlocker, v) => Unharmed(v)]_vars
    BY FaithfulUnharmed
  <1>2. TInv /\ [Next]_vars =>
           [(Tallies /\ ~ IsPeriodLastBlock(SlashWindow)) =>
               \A v \in DOMAIN votes :
                  Faithful(StakingEndBlocker, v) =>
                     (v \in DOMAIN missCounters' =>
                        v \in DOMAIN missCounters /\ missCounters'[v] = missCounters[v])]_vars
    BY <1>1, Zenon DEF Unharmed
  <1> QED BY <1>2, AlwaysTyped, PTL DEF Spec, FaithfulNeverMisses

\* SlashAndResetMissCounters judges a validator by the periods that fit in a window;
\* where the window is a whole number of vote periods, whoever is slashed was faithful
\* in less than the minimum of the tallies that there really were.
THEOREM SlashedAlwaysBelowMinimum ==
    ASSUME SlashWindow % VotePeriod = 0
    PROVE  Spec => SlashedOnlyBelowMinimum
  <1>1. Init => WindowOK
    BY InitWindow
  <1>2. TInv /\ WindowOK /\ [Next]_vars => WindowOK'
    BY NextWindow
  <1>3. TInv /\ WindowOK /\ [Next]_vars =>
           [\A v \in Validators :
              stake'[v].jailed /\ ~ stake[v].jailed =>
                 LET st == StakingEndBlocker
                     last == IF IsPeriodLastBlock(VotePeriod) THEN 1 ELSE 0
                     tallies == history.tallies + last
                     faults == history.faults[v]
                               + (IF Faithful(st, v) THEN 0 ELSE last)
                 IN  ToDec(tallies - faults) < MinValidPerWindow * tallies]_vars
    BY OnlyFailingJailed
  <1> QED BY <1>1, <1>2, <1>3, AlwaysTyped, PTL DEF Spec, SlashedOnlyBelowMinimum

-----------------------------------------------------------------------------
(* The time-weighted price. *)

\* The snapshots of a pair are in the order of their times, of which no two are the
\* same and none is in the future.  Without the order a price could have been in
\* force for a negative time.
IsTimeline(snaps, h) ==
    /\ snaps \in Seq([ts : Int, price : Int])
    /\ \A i \in DOMAIN snaps : snaps[i].ts <= h
    /\ \A i, j \in DOMAIN snaps : i < j => snaps[i].ts < snaps[j].ts

TimelinesOK ==
    /\ DOMAIN snapshots = Pairs
    /\ \A p \in Pairs : IsTimeline(snapshots[p], height)

\* What the proofs need of a timeline.
LEMMA TimelineFacts ==
    ASSUME NEW snaps, NEW h, IsTimeline(snaps, h)
    PROVE  /\ DOMAIN snaps = 1..Len(snaps) /\ Len(snaps) \in Nat
           /\ \A i \in 1..Len(snaps) : /\ snaps[i].ts \in Int /\ snaps[i].price \in Int
                                       /\ snaps[i].ts <= h
           /\ \A i, j \in 1..Len(snaps) : i < j => snaps[i].ts < snaps[j].ts
  <1>1. snaps \in Seq([ts : Int, price : Int])
    BY DEF IsTimeline
  <1>2. /\ DOMAIN snaps = 1..Len(snaps) /\ Len(snaps) \in Nat
        /\ \A i \in DOMAIN snaps : snaps[i] \in [ts : Int, price : Int]
    BY <1>1, SeqElement, Zenon
  <1>3. \A r \in [ts : Int, price : Int] : r.ts \in Int /\ r.price \in Int
    OBVIOUS
  <1>4. \A i \in DOMAIN snaps : snaps[i].ts \in Int /\ snaps[i].price \in Int
    BY <1>2, <1>3, Zenon
  <1> QED BY <1>2, <1>4, Zenon DEF IsTimeline

\* A timeline stays one when time passes.
LEMMA TimelineAges ==
    ASSUME NEW snaps, NEW h \in Int, IsTimeline(snaps, h)
    PROVE  IsTimeline(snaps, h + 1)
  <1>1. /\ DOMAIN snaps = 1..Len(snaps)
        /\ \A i \in 1..Len(snaps) : snaps[i].ts \in Int /\ snaps[i].ts <= h
    BY TimelineFacts
  <1>2. \A t \in Int : t <= h => t <= h + 1
    OBVIOUS
  <1>3. \A i \in DOMAIN snaps : snaps[i].ts <= h + 1
    BY <1>1, <1>2, Zenon
  <1> QED BY <1>3, Zenon DEF IsTimeline

\* SetPrice adds a snapshot at the end, or replaces the last.
LEMMA InsertedTimeline ==
    ASSUME NEW h \in Int, NEW snaps, IsTimeline(snaps, h), NEW r \in Int
    PROVE  IsTimeline(Inserted(snaps, [ts |-> h, price |-> r]), h)
  <1> DEFINE new == [ts |-> h, price |-> r]
             n == Len(snaps)
             k == IF n = 0 \/ snaps[n].ts < new.ts THEN n ELSE n - 1
             head == SubSeq(snaps, 1, k)
             u == Append(head, new)
  <1>1. /\ n \in Nat /\ snaps \in Seq([ts : Int, price : Int])
        /\ \A i \in 1..n : snaps[i].ts \in Int /\ snaps[i].ts <= h
        /\ \A i, j \in 1..n : i < j => snaps[i].ts < snaps[j].ts
    BY TimelineFacts DEF IsTimeline
  <1>2. new \in [ts : Int, price : Int] /\ new.ts = h
    OBVIOUS
  <1> HIDE DEF new
  <1>3. k \in Nat /\ k <= n
    BY <1>1
  <1>4. \A i \in 1..k : snaps[i].ts < h
    <2> SUFFICES ASSUME NEW i \in 1..k PROVE snaps[i].ts < h
      OBVIOUS
    <2>0. i \in 1..n /\ n \in 1..n
      BY <1>1, <1>3
    <2>1. snaps[i].ts \in Int /\ snaps[n].ts \in Int /\ snaps[n].ts <= h
      BY <1>1, <2>0, Zenon
    <2>2. i < n => snaps[i].ts < snaps[n].ts
      BY <1>1, <2>0, Zenon
    <2>3. i = n \/ i < n
      BY <1>1, <2>0
    <2>4. snaps[n].ts < h \/ i < n
      <3>1. CASE snaps[n].ts < h
        BY <3>1
      <3>2. CASE ~ (snaps[n].ts < h)
        <4>1. n # 0
          BY <2>0
        <4>2. k = n - 1
          BY <1>2, <3>2, <4>1
        <4> QED BY <1>1, <4>2
      <3> QED BY <3>1, <3>2
    <2> HIDE DEF n, k
    <2> QED BY <2>1, <2>2, <2>3, <2>4
  <1> HIDE DEF k
  <1>5. /\ head \in Seq([ts : Int, price : Int]) /\ Len(head) = k
        /\ \A i \in 1..k : head[i] = snaps[i]
    BY <1>1, <1>3, FirstElements
  <1> HIDE DEF head
  <1>6. /\ u \in Seq([ts : Int, price : Int]) /\ Len(u) = k + 1 /\ DOMAIN u = 1..(k + 1)
        /\ u[k + 1] = new /\ \A i \in 1..k : u[i] = snaps[i]
    BY <1>2, <1>3, <1>5
  <1> HIDE DEF u
  <1>7. \A i \in DOMAIN u : u[i].ts <= h
    <2> SUFFICES ASSUME NEW i \in 1..(k + 1) PROVE u[i].ts <= h
      BY <1>6
    <2>1. CASE i = k + 1
      BY <1>2, <1>6, <2>1
    <2>2. CASE i \in 1..k
      <3>1. u[i] = snaps[i]
        BY <1>6, <2>2, Zenon
      <3>2. i \in 1..n
        BY <1>1, <1>3, <2>2
      <3> QED BY <1>1, <3>1, <3>2
    <2> QED BY <1>3, <2>1, <2>2
  <1>8. \A i, j \in DOMAIN u : i < j => u[i].ts < u[j].ts
    <2> SUFFICES ASSUME NEW i \in 1..(k + 1), NEW j \in 1..(k + 1), i < j
                 PROVE  u[i].ts < u[j].ts
      BY <1>6
    <2>1. i \in 1..k
      BY <1>3
    <2>2. CASE j = k + 1
      BY <1>2, <1>4, <1>6, <2>1, <2>2
    <2>3. CASE j \in 1..k
      <3>1. i \in 1..n /\ j \in 1..n
        BY <1>1, <1>3, <2>1, <2>3
      <3> QED BY <1>1, <1>6, <2>1, <2>3, <3>1
    <2> QED BY <1>3, <2>2, <2>3
  <1>9. IsTimeline(u, h)
    BY <1>6, <1>7, <1>8 DEF IsTimeline
  <1> QED BY <1>9 DEF Inserted, u, head, k, n, new

\* A tally writes at most one snapshot of each pair.
LEMMA BlockEndsTimelines ==
    ASSUME TInv, TimelinesOK, BlockEnds
    PROVE  TimelinesOK'
  <1> DEFINE st == StakingEndBlocker
  <1>1. /\ ReportsOK /\ st \in [Validators -> Stakes]
        /\ height \in Int
    BY InputAssumption, StakingStep DEF TInv, ChainOK
  <1>2. height' = height + 1
    BY DEF BlockEnds
  <1>3. CASE snapshots' = snapshots
    BY <1>1, <1>2, <1>3, TimelineAges DEF TimelinesOK
  <1>4. CASE UpdatePrices(st)
    <2>1. snapshots' = [p \in Pairs |->
              IF p \in PassingPairs(st)
              THEN Inserted(snapshots[p], [ts |-> height, price |-> Price(st, p)])
              ELSE snapshots[p]]
      BY <1>4 DEF UpdatePrices
    <2>2. ASSUME NEW p \in Pairs PROVE IsTimeline(snapshots'[p], height + 1)
      <3>1. IsTimeline(snapshots[p], height)
        BY DEF TimelinesOK
      <3>2. CASE p \in PassingPairs(st)
        <4> DEFINE r == Price(st, p)
        <4>1. r \in Int
          BY <1>1, <3>2, PassingBallot
        <4>2. snapshots'[p] = Inserted(snapshots[p], [ts |-> height, price |-> r])
          BY <2>1, <3>2
        <4> HIDE DEF r
        <4>3. IsTimeline(snapshots'[p], height)
          BY <1>1, <3>1, <4>1, <4>2, InsertedTimeline
        <4> QED BY <1>1, <4>3, TimelineAges
      <3>3. CASE p \notin PassingPairs(st)
        <4>1. snapshots'[p] = snapshots[p]
          BY <2>1, <3>3
        <4> QED BY <1>1, <3>1, <4>1, TimelineAges
      <3> QED BY <3>2, <3>3
    <2>3. DOMAIN snapshots' = Pairs
      BY <2>1
    <2> QED BY <1>2, <2>2, <2>3 DEF TimelinesOK
  <1> QED BY <1>3, <1>4 DEF BlockEnds, UpdateExchangeRates, votingVars

\* Every step keeps the timelines.
LEMMA NextTimelines ==
    ASSUME TInv, TimelinesOK, [Next]_vars
    PROVE  TimelinesOK'
  <1>1. ASSUME UNCHANGED <<height, snapshots>> PROVE TimelinesOK'
    BY <1>1 DEF TimelinesOK
  <1>2. CASE UNCHANGED vars
    BY <1>1, <1>2 DEF vars, votingVars
  <1>3. CASE EndBlock
    BY <1>3, EndBlockDoesNotPanic, BlockEndsTimelines
  <1>4. ASSUME NEW v, NEW feeder, NEW report,
               \/ AggregateExchangeRatePrevote(v, feeder, report)
               \/ AggregateExchangeRateVote(v, feeder, report)
        PROVE  TimelinesOK'
    BY <1>1, <1>4 DEF AggregateExchangeRatePrevote, AggregateExchangeRateVote
  <1>5. ASSUME NEW d, DelegateFeedConsent(d[1], d[2]) PROVE TimelinesOK'
    BY <1>1, <1>5 DEF DelegateFeedConsent, votingVars
  <1>6. CASE AfterWeekEnd \/ \E amt \in Fees : PayFees(amt)
    BY <1>1, <1>6 DEF AfterWeekEnd, PayFees, votingVars
  <1>7. ASSUME NEW v, Undelegate(v) \/ Unjail(v) PROVE TimelinesOK'
    BY <1>1, <1>7 DEF Undelegate, Unjail, votingVars
  <1>8. CASE Restart
    <2>1. /\ height' = height /\ height \in Int
          /\ snapshots' = [p \in Pairs |->
                IF p \in DOMAIN exchangeRates
                THEN <<[ts |-> height, price |-> exchangeRates[p]]>> ELSE <<>>]
      BY <1>8, InputAssumption DEF Restart, TInv, ChainOK
    <2>2. ASSUME NEW p \in Pairs PROVE IsTimeline(snapshots'[p], height)
      <3>1. CASE p \in DOMAIN exchangeRates
        <4> DEFINE r == exchangeRates[p]
                   new == [ts |-> height, price |-> r]
        <4>1. r \in Int
          BY <3>1 DEF TInv, PricesOK
        <4>2. snapshots'[p] = <<new>>
          BY <2>1, <3>1
        <4> HIDE DEF r
        <4>3. new \in [ts : Int, price : Int] /\ new.ts = height
          BY <2>1, <4>1
        <4> HIDE DEF new
        <4>4. IsTimeline(<<new>>, height)
          BY <2>1, <4>3 DEF IsTimeline
        <4> QED BY <4>2, <4>4
      <3>2. CASE p \notin DOMAIN exchangeRates
        <4>1. snapshots'[p] = <<>>
          BY <2>1, <3>2
        <4> QED BY <4>1 DEF IsTimeline
      <3> QED BY <3>1, <3>2
    <2>3. DOMAIN snapshots' = Pairs
      BY <2>1
    <2> QED BY <2>1, <2>2, <2>3 DEF TimelinesOK
  <1> QED BY <1>2, <1>3, <1>4, <1>5, <1>6, <1>7, <1>8 DEF Next

\* The window of a timeline is a timeline that begins in the window.
LEMMA WindowTimeline ==
    ASSUME TimelinesOK, height \in Int, NEW p \in Pairs, TwapSnapshots(p) # <<>>
    PROVE  /\ IsTimeline(TwapSnapshots(p), height)
           /\ Len(TwapSnapshots(p)) > 0
           /\ TwapSnapshots(p)[1].ts >= height - TwapLookback
  <1> DEFINE snaps == snapshots[p]
             n == Len(snaps)
             recent == {i \in DOMAIN snaps : snaps[i].ts >= height - TwapLookback}
             k == Min(recent)
             w == SubSeq(snaps, k, n)
  <1>1. /\ n \in Nat /\ DOMAIN snaps = 1..n /\ snaps \in Seq([ts : Int, price : Int])
        /\ \A i \in 1..n : snaps[i].ts \in Int /\ snaps[i].ts <= height
        /\ \A i, j \in 1..n : i < j => snaps[i].ts < snaps[j].ts
    <2>1. IsTimeline(snaps, height)
      BY DEF TimelinesOK
    <2> QED BY <2>1, TimelineFacts DEF IsTimeline
  <1>2. recent # {} /\ TwapSnapshots(p) = w
    BY DEF TwapSnapshots
  <1> HIDE DEF snaps
  <1>3. k \in recent
    <2>1. recent \subseteq Nat
      BY <1>1
    <2>2. \E m \in recent : \A j \in recent : m <= j
      BY <1>2, <2>1, LeastNatural
    <2> HIDE DEF recent
    <2> QED BY <2>2 DEF Min
  <1>4. k \in 1..n /\ snaps[k].ts >= height - TwapLookback
    BY <1>1, <1>3
  <1> HIDE DEF k
  <1>5. /\ w \in Seq([ts : Int, price : Int]) /\ Len(w) = n - k + 1
        /\ \A i \in 1..(n - k + 1) : w[i] = snaps[i + k - 1]
    BY <1>1, <1>4, LaterElements
  <1> DEFINE l == n - k + 1
  <1>6. DOMAIN w = 1..l /\ l \in Nat /\ l > 0
    BY <1>1, <1>4, <1>5
  <1> HIDE DEF w, l
  <1>7. \A i \in 1..l : i + k - 1 \in 1..n /\ w[i] = snaps[i + k - 1]
    <2>1. \A i \in 1..l : i + k - 1 \in 1..n
      BY <1>1, <1>4, <1>6 DEF l
    <2>2. \A i \in 1..l : w[i] = snaps[i + k - 1]
      BY <1>5, Zenon DEF l
    <2> QED BY <2>1, <2>2
  <1>8. \A i \in 1..l : w[i].ts <= height
    BY <1>1, <1>7, Zenon
  <1>9. \A i, j \in 1..l : i < j => w[i].ts < w[j].ts
    <2> SUFFICES ASSUME NEW i \in 1..l, NEW j \in 1..l, i < j PROVE w[i].ts < w[j].ts
      OBVIOUS
    <2>1. i + k - 1 < j + k - 1
      BY <1>1, <1>4, <1>6
    <2> QED BY <1>1, <1>7, <2>1, Zenon
  <1>10. IsTimeline(w, height)
    BY <1>5, <1>6, <1>8, <1>9 DEF IsTimeline
  <1>11. w[1] = snaps[k]
    <2>1. 1 \in 1..l /\ 1 + k - 1 = k
      BY <1>4, <1>6
    <2> QED BY <1>7, <2>1
  <1>12. Len(w) > 0
    BY <1>5, <1>6 DEF l
  <1> QED BY <1>2, <1>4, <1>10, <1>11, <1>12

\* calcTwap weighs every price with the time it was in force, which is not negative;
\* these times add up to the divisor, which is not zero.
LEMMA TwapBetween ==
    ASSUME height \in Int, NEW v, IsTimeline(v, height), Len(v) > 0,
           v[1].ts >= height - TwapLookback,
           NEW lo \in Int, NEW hi \in Int,
           \A i \in DOMAIN v : lo <= v[i].price /\ v[i].price <= hi
    PROVE  lo <= CalcTwap(v) /\ CalcTwap(v) <= hi
  <1> DEFINE n == Len(v)
             first == MaxDec(v[1].ts, height - TwapLookback)
             start(i) == IF i = 1 THEN first ELSE v[i].ts
             end(i) == IF i = n THEN height ELSE v[i + 1].ts
             terms == [i \in DOMAIN v |-> v[i].price * (end(i) - start(i))]
  <1>1. /\ n \in Nat /\ DOMAIN v = 1..n
        /\ \A i \in 1..n : v[i].ts \in Int /\ v[i].price \in Int /\ v[i].ts <= height
        /\ \A i, j \in 1..n : i < j => v[i].ts < v[j].ts
    BY TimelineFacts
  <1>2. 1 \in 1..n
    BY <1>1
  <1>3. CASE n = 1
    <2>1. CalcTwap(v) = v[1].price
      BY <1>3 DEF CalcTwap
    <2> QED BY <1>1, <1>2, <2>1
  <1>4. CASE n # 1
    <2>1. CalcTwap(v) = Quot(SumFunction(terms), height - first)
      BY <1>4, Zenon DEF CalcTwap, QuoInt
    <2>2. first = v[1].ts
      <3>1. v[1].ts \in Int
        BY <1>1, <1>2, Zenon
      <3> QED BY <3>1, ParamsAssumption DEF MaxDec
    <2> HIDE DEF first
    <2> DEFINE g == [i \in 1..(n + 1) |-> IF i = n + 1 THEN height ELSE v[i].ts]
               w == [i \in 1..n |-> g[i + 1] - g[i]]
               q == [i \in 1..n |-> v[i].price]
    <2> HIDE DEF n
    <2>3. \A i \in 1..n : i \in 1..(n + 1) /\ i + 1 \in 1..(n + 1) /\ i # n + 1
                          /\ (i # n => i + 1 \in 1..n /\ i < i + 1 /\ i + 1 # n + 1)
                          /\ (i = n => i + 1 = n + 1)
      BY <1>1
    <2>4. \A i \in 1..n : g[i] = v[i].ts /\ g[i + 1] = end(i) /\ start(i) = v[i].ts
      <3> SUFFICES ASSUME NEW i \in 1..n
                   PROVE  g[i] = v[i].ts /\ g[i + 1] = end(i) /\ start(i) = v[i].ts
        OBVIOUS
      <3>1. g[i] = v[i].ts /\ g[i + 1] = IF i + 1 = n + 1 THEN height ELSE v[i + 1].ts
        BY <2>3
      <3>2. i + 1 = n + 1 <=> i = n
        BY <1>1
      <3> QED BY <2>2, <3>1, <3>2
    <2>5. \A i \in 1..(n + 1) : g[i] \in Int
      <3> SUFFICES ASSUME NEW i \in 1..(n + 1) PROVE g[i] \in Int
        OBVIOUS
      <3>1. CASE i = n + 1
        BY <3>1
      <3>2. CASE i # n + 1
        <4>1. i \in 1..n
          BY <1>1, <3>2
        <4> QED BY <1>1, <3>2, <4>1
      <3> QED BY <3>1, <3>2
    <2>6. \A i \in 1..n : end(i) \in Int /\ v[i].ts <= end(i)
      <3> SUFFICES ASSUME NEW i \in 1..n PROVE end(i) \in Int /\ v[i].ts <= end(i)
        OBVIOUS
      <3>1. CASE i = n
        BY <1>1, <3>1
      <3>2. CASE i # n
        <4>1. i + 1 \in 1..n /\ i < i + 1
          BY <2>3, <3>2
        <4>2. v[i].ts < v[i + 1].ts /\ v[i].ts \in Int /\ v[i + 1].ts \in Int
          BY <1>1, <4>1, Zenon
        <4>3. end(i) = v[i + 1].ts
          BY <3>2
        <4> QED BY <4>2, <4>3
      <3> QED BY <3>1, <3>2
    <2>7. \A i \in 1..n : /\ terms[i] = q[i] * w[i] /\ w[i] = g[i + 1] - g[i]
                          /\ w[i] \in Nat
                          /\ q[i] \in Int /\ lo <= q[i] /\ q[i] <= hi
      <3> SUFFICES ASSUME NEW i \in 1..n
                   PROVE  /\ terms[i] = q[i] * w[i] /\ w[i] = g[i + 1] - g[i]
                          /\ w[i] \in Nat
                          /\ q[i] \in Int /\ lo <= q[i] /\ q[i] <= hi
        OBVIOUS
      <3>1. terms[i] = v[i].price * (end(i) - start(i)) /\ i \in DOMAIN v
        BY <1>1
      <3>2. w[i] = g[i + 1] - g[i] /\ q[i] = v[i].price
        OBVIOUS
      <3>3. /\ g[i] = v[i].ts /\ g[i + 1] = end(i) /\ start(i) = v[i].ts
            /\ end(i) \in Int /\ v[i].ts <= end(i) /\ v[i].ts \in Int
        BY <1>1, <2>4, <2>6, Zenon
      <3> HIDE DEF terms, end, start, w, q, g
      <3>4. w[i] \in Nat
        BY <3>2, <3>3
      <3>5. terms[i] = q[i] * w[i]
        BY <3>1, <3>2, <3>3
      <3>6. q[i] \in Int /\ lo <= q[i] /\ q[i] <= hi
        BY <1>1, <3>1, <3>2, Zenon
      <3> QED BY <3>2, <3>4, <3>5, <3>6
    <2>8. /\ g[n + 1] = height /\ g[1] = v[1].ts /\ v[1].ts < height /\ v[1].ts \in Int
      <3>1. n + 1 \in 1..(n + 1) /\ n \in 1..n /\ 1 < n
        BY <1>1, <1>2, <1>4
      <3>2. g[n + 1] = height
        BY <3>1
      <3>3. v[1].ts < v[n].ts /\ v[n].ts <= height /\ v[1].ts \in Int /\ v[n].ts \in Int
        BY <1>1, <1>2, <3>1, Zenon
      <3> QED BY <1>2, <2>4, <3>2, <3>3
    <2>9. SumFunction(terms) = SumFunctionOnSet(terms, 1..n)
      BY <1>1 DEF SumFunction
    <2> HIDE DEF terms, end, start, w, q, g
    <2>10. SumFunctionOnSet(w, 1..n) = g[n + 1] - g[1]
      BY <1>1, <2>5, <2>7, SumTelescopes
    <2> DEFINE S == 1..n
    <2>11. IsFiniteSet(S)
      BY <1>1, FS_Interval
    <2>12. SumFunctionOnSet(w, S) = height - first /\ SumFunctionOnSet(w, S) # 0
      BY <2>2, <2>8, <2>10
    <2>13. \A i \in S : /\ terms[i] = q[i] * w[i] /\ w[i] \in Nat
                        /\ q[i] \in Int /\ lo <= q[i] /\ q[i] <= hi
      BY <2>7
    <2>14. SumFunction(terms) = SumFunctionOnSet(terms, S)
      BY <2>9
    <2> HIDE DEF S
    <2>15. /\ lo <= Quot(SumFunctionOnSet(terms, S), SumFunctionOnSet(w, S))
           /\ Quot(SumFunctionOnSet(terms, S), SumFunctionOnSet(w, S)) <= hi
      BY <2>11, <2>12, <2>13, AverageBetween
    <2> QED BY <2>1, <2>12, <2>14, <2>15
  <1> QED BY <1>3, <1>4

\* GetExchangeRateTwap returns a price between the lowest and the highest of its
\* window: it never divides by zero, and neither a snapshot that is written again in
\* the same block after a restart nor the truncation of the quotient moves it out of
\* them, whatever their signs, the vote period and the window.
THEOREM TwapAlwaysBetweenPrices == Spec => []TwapBetweenPrices
  <1>1. Init => TimelinesOK
    BY DEF Init, TimelinesOK, IsTimeline
  <1>2. TInv /\ TimelinesOK /\ [Next]_vars => TimelinesOK'
    BY NextTimelines
  <1>3. TInv /\ TimelinesOK => TwapBetweenPrices
    <2> SUFFICES ASSUME TInv, TimelinesOK, NEW p \in Pairs, TwapSnapshots(p) # <<>>
                 PROVE  LET prices == {TwapSnapshots(p)[i].price : i \in DOMAIN TwapSnapshots(p)}
                        IN  /\ Min(prices) <= CalcTwap(TwapSnapshots(p))
                            /\ CalcTwap(TwapSnapshots(p)) <= Max(prices)
      BY DEF TwapBetweenPrices
    <2> DEFINE v == TwapSnapshots(p)
               f == [i \in DOMAIN v |-> v[i].price]
               prices == {v[i].price : i \in DOMAIN v}
    <2>1. /\ height \in Int /\ IsTimeline(v, height) /\ Len(v) > 0
          /\ v[1].ts >= height - TwapLookback
      BY InputAssumption, WindowTimeline DEF TInv, ChainOK
    <2> HIDE DEF v
    <2>2. /\ DOMAIN v = 1..Len(v) /\ Len(v) \in Nat
          /\ \A i \in 1..Len(v) : v[i].price \in Int
      BY <2>1, TimelineFacts
    <2>3. prices = {f[i] : i \in DOMAIN v}
      OBVIOUS
    <2>4. IsFiniteSet(DOMAIN v)
      BY <2>2, FS_Interval
    <2> HIDE DEF f
    <2>5. IsFiniteSet(prices)
      BY <2>3, <2>4, FiniteImage
    <2>6. prices \subseteq Int /\ prices # {}
      <3>1. 1 \in DOMAIN v
        BY <2>1, <2>2
      <3> QED BY <2>2, <3>1
    <2>7. \A i \in DOMAIN v : v[i].price \in prices
      OBVIOUS
    <2> HIDE DEF prices
    <2>8. Min(prices) \in prices /\ \A r \in prices : Min(prices) <= r
      <3>1. \E m \in prices : \A r \in prices : m <= r
        BY <2>5, <2>6, LeastInteger
      <3> QED BY <3>1 DEF Min
    <2>9. Max(prices) \in prices /\ \A r \in prices : r <= Max(prices)
      <3>1. \E m \in prices : \A r \in prices : r <= m
        BY <2>5, <2>6, GreatestInteger
      <3>2. \E m \in prices : \A r \in prices : m >= r
        BY <2>6, <3>1
      <3>3. Max(prices) \in prices /\ \A r \in prices : Max(prices) >= r
        BY <3>2 DEF Max
      <3> QED BY <2>6, <3>3
    <2>10. Min(prices) \in Int /\ Max(prices) \in Int
      BY <2>6, <2>8, <2>9
    <2>11. \A i \in DOMAIN v : Min(prices) <= v[i].price /\ v[i].price <= Max(prices)
      BY <2>7, <2>8, <2>9, Zenon
    <2> DEFINE lo == Min(prices)
               hi == Max(prices)
    <2> HIDE DEF lo, hi
    <2>12. lo <= CalcTwap(v) /\ CalcTwap(v) <= hi
      BY <2>1, <2>10, <2>11, TwapBetween DEF lo, hi
    <2> QED BY <2>12 DEF lo, hi, prices, v
  <1> QED BY <1>1, <1>2, <1>3, AlwaysTyped, PTL DEF Spec
=============================================================================
