--------------------------- MODULE InflationProofs --------------------------
(***************************************************************************)
(* The clocks of x/epochs, which inflation listens to, are periodic        *)
(* timers, for any identifiers, durations, start times, block times and    *)
(* restarts.  The fairness half of PeriodicTimers is left to TLC.          *)
(*                                                                         *)
(* Inflation for any parameters, epochs, block times, votes and restarts:  *)
(* every minted coin is allocated and the chain halts only without a       *)
(* long-term part (MintedIsAllocated), and the period follows the days on  *)
(* which inflation was on (PeriodFollowsDays).                             *)
(***************************************************************************)
EXTENDS Inflation, ArithmeticProofs

-----------------------------------------------------------------------------
(* The clocks. *)

\* What holds of one clock: its start time and its duration are those of the
\* genesis file, and it has a number exactly when it is counting.
ClockOK(id) ==
    /\ epochs[id] \in EpochInfos
    /\ epochs[id].start = GenesisStart(id)
    /\ epochs[id].duration = GenesisEpochs[id].duration
    /\ epochs[id].counting <=> epochs[id].number > 0

\* Without ClockOK the export could restore a clock with another start time, or
\* one that counts from 1 again.
ClocksOK ==
    /\ DOMAIN epochs = EpochIds
    /\ \A id \in EpochIds : ClockOK(id)
    /\ time \in Nat
    /\ height \in Nat

\* A step of one clock: it begins its first period, ends a period, or nothing.
ClockStep(id) == T!Begin(id) \/ T!Tick(id) \/ T!Idle(id)

-----------------------------------------------------------------------------

\* The fields of a clock whose next period begins.
LEMMA StartedClock ==
    ASSUME NEW info \in EpochInfos, NEW t \in Nat, NEW h \in Nat
    PROVE  /\ StartEpoch(info, t, h) \in EpochInfos
           /\ StartEpoch(info, t, h).start = info.start
           /\ StartEpoch(info, t, h).duration = info.duration
           /\ StartEpoch(info, t, h).began = t
           /\ StartEpoch(info, t, h).counting = TRUE
           /\ StartEpoch(info, t, h).number =
                  IF info.counting THEN info.number + 1 ELSE 1
<1> DEFINE n == IF info.counting THEN info.number + 1 ELSE 1
<1>1. n \in Nat
  BY DEF EpochInfos
<1>2. StartEpoch(info, t, h) = [info EXCEPT !.height = h, !.began = t,
                                            !.counting = TRUE, !.number = n]
  BY DEF StartEpoch
<1> HIDE DEF n
<1>3. /\ StartEpoch(info, t, h) \in EpochInfos
      /\ StartEpoch(info, t, h).start = info.start
      /\ StartEpoch(info, t, h).duration = info.duration
      /\ StartEpoch(info, t, h).began = t
      /\ StartEpoch(info, t, h).counting = TRUE
      /\ StartEpoch(info, t, h).number = n
  BY <1>1, <1>2, Zenon DEF EpochInfos
<1> QED
  BY <1>3 DEF n

\* The fields of an imported clock.
LEMMA AddedClock ==
    ASSUME NEW info \in GenesisInfos, NEW t \in Nat, NEW h \in Nat,
           info.duration # 0
    PROVE  /\ AddEpochInfo(info, t, h) \in EpochInfos
           /\ AddEpochInfo(info, t, h).start =
                  IF info.start = Unset THEN t ELSE info.start
           /\ AddEpochInfo(info, t, h).duration = info.duration
           /\ AddEpochInfo(info, t, h).number = info.number
           /\ AddEpochInfo(info, t, h).began = info.began
           /\ AddEpochInfo(info, t, h).counting = info.counting
<1> DEFINE s == IF info.start = Unset THEN t ELSE info.start
<1>1. s \in Nat /\ info.duration \in Nat \ {0}
  BY DEF GenesisInfos
<1>2. AddEpochInfo(info, t, h) = [info EXCEPT !.start = s, !.height = h]
  BY DEF AddEpochInfo
<1> HIDE DEF s
<1>3. /\ AddEpochInfo(info, t, h) \in EpochInfos
      /\ AddEpochInfo(info, t, h).start = s
      /\ AddEpochInfo(info, t, h).duration = info.duration
      /\ AddEpochInfo(info, t, h).number = info.number
      /\ AddEpochInfo(info, t, h).began = info.began
      /\ AddEpochInfo(info, t, h).counting = info.counting
  BY <1>1, <1>2, Zenon DEF EpochInfos, GenesisInfos
<1> QED
  BY <1>3 DEF s

\* The genesis file is imported with every clock at rest (InitGenesis).
LEMMA InitClocks == EpochsInit => ClocksOK /\ T!TimersInit
<1> SUFFICES ASSUME EpochsInit PROVE ClocksOK /\ T!TimersInit
  OBVIOUS
<1>1. DOMAIN epochs = EpochIds
  BY EpochsAssumption DEF EpochsInit, InitGenesis
<1>2. ASSUME NEW id \in EpochIds PROVE ClockOK(id) /\ epochs[id].number = 0
  <2>1. GenesisEpochs[id].duration # 0
    BY EpochsAssumption DEF EpochsInit, CanInitGenesis, ValidEpochInfo
  <2>2. epochs[id] = AddEpochInfo(GenesisEpochs[id], 0, 0)
    BY EpochsAssumption DEF EpochsInit, InitGenesis
  <2>3. GenesisEpochs[id] \in GenesisInfos
    BY EpochsAssumption
  <2>4. GenesisEpochs[id].number = 0 /\ GenesisEpochs[id].counting = FALSE
    BY EpochsAssumption
  <2>5. /\ epochs[id] \in EpochInfos
        /\ epochs[id].start = GenesisStart(id)
        /\ epochs[id].duration = GenesisEpochs[id].duration
        /\ epochs[id].number = 0
        /\ epochs[id].counting = FALSE
    BY <2>1, <2>2, <2>3, <2>4, AddedClock DEF GenesisStart
  <2> QED
    BY <2>5 DEF ClockOK
<1>3. T!TimersInit
  BY <1>2 DEF T!TimersInit
<1> QED
  BY <1>1, <1>2, <1>3 DEF ClocksOK, EpochsInit

\* A block moves every clock by at most one period (BeginBlocker).
LEMMA BlockStep ==
    ASSUME ClocksOK, NEW dt \in Nat, BeginBlocker(dt)
    PROVE  ClocksOK' /\ \A id \in EpochIds : ClockStep(id)
<1>1. time' \in Nat /\ height' \in Nat /\ DOMAIN epochs' = EpochIds
  BY DEF ClocksOK, BeginBlocker, AfterBlock
<1>2. ASSUME NEW id \in EpochIds PROVE ClockOK(id)' /\ ClockStep(id)
  <2>1. CASE Starts(epochs[id], time')
    <3>1. epochs'[id] = StartEpoch(epochs[id], time', height')
      BY <2>1 DEF ClocksOK, BeginBlocker, AfterBlock
    <3>2. /\ epochs'[id] \in EpochInfos
          /\ epochs'[id].start = epochs[id].start
          /\ epochs'[id].duration = epochs[id].duration
          /\ epochs'[id].began = time'
          /\ epochs'[id].counting = TRUE
          /\ epochs'[id].number =
                IF epochs[id].counting THEN epochs[id].number + 1 ELSE 1
      <4>1. epochs[id] \in EpochInfos
        BY DEF ClocksOK, ClockOK
      <4> DEFINE s == StartEpoch(epochs[id], time', height')
      <4>2. /\ s \in EpochInfos
            /\ s.start = epochs[id].start
            /\ s.duration = epochs[id].duration
            /\ s.began = time'
            /\ s.counting = TRUE
            /\ s.number = IF epochs[id].counting THEN epochs[id].number + 1 ELSE 1
        BY <1>1, <4>1, StartedClock
      <4> HIDE DEF s
      <4>3. epochs'[id] = s
        BY <3>1 DEF s
      <4> QED
        BY <4>2, <4>3
    <3>3. ClockOK(id)'
      BY <3>2 DEF ClocksOK, ClockOK, EpochInfos
    <3>4. CASE epochs[id].counting
      <4>1. time' >= epochs[id].began + epochs[id].duration
        BY <2>1, <3>4 DEF Starts, ShouldEpochStart
      <4>2. T!Tick(id)
        BY <3>2, <3>4, <4>1 DEF ClocksOK, ClockOK, T!Tick
      <4> QED
        BY <3>3, <4>2 DEF ClockStep
    <3>5. CASE ~ epochs[id].counting
      <4>1. time' >= epochs[id].start
        BY <2>1 DEF Starts
      <4>2. epochs[id].number = 0
        BY <3>5 DEF ClocksOK, ClockOK, EpochInfos
      <4>3. T!Begin(id)
        BY <3>2, <3>5, <4>1, <4>2 DEF ClocksOK, ClockOK, T!Begin
      <4> QED
        BY <3>3, <4>3 DEF ClockStep
    <3> QED
      BY <3>3, <3>4, <3>5
  <2>2. CASE ~ Starts(epochs[id], time')
    <3>1. epochs'[id] = epochs[id]
      BY <2>2 DEF ClocksOK, BeginBlocker, AfterBlock
    <3> QED
      BY <3>1 DEF ClocksOK, ClockOK, ClockStep, T!Idle
  <2> QED
    BY <2>1, <2>2
<1> QED
  BY <1>1, <1>2 DEF ClocksOK

\* A restart leaves the clocks where they are (ExportGenesis, InitGenesis).
LEMMA RestartStep ==
    ASSUME ClocksOK, NEW dt \in Nat, RestartEpochs(dt)
    PROVE  ClocksOK' /\ \A id \in EpochIds : ClockStep(id)
<1>1. time' \in Nat /\ height' \in Nat /\ DOMAIN epochs' = EpochIds
  BY DEF ClocksOK, RestartEpochs, InitGenesis
<1>2. ASSUME NEW id \in EpochIds
      PROVE  /\ epochs'[id] \in EpochInfos
             /\ epochs'[id].start = epochs[id].start
             /\ epochs'[id].duration = epochs[id].duration
             /\ epochs'[id].number = epochs[id].number
             /\ epochs'[id].began = epochs[id].began
             /\ epochs'[id].counting = epochs[id].counting
  <2>1. epochs'[id] = AddEpochInfo(epochs[id], time', height')
    BY DEF ClocksOK, RestartEpochs, InitGenesis
  <2>2. /\ epochs[id] \in EpochInfos
        /\ epochs[id].duration # 0
        /\ epochs[id].start # Unset
    BY DEF ClocksOK, ClockOK, EpochInfos, Unset
  <2>3. epochs[id] \in GenesisInfos
    BY <2>2 DEF EpochInfos, GenesisInfos
  <2> QED
    BY <1>1, <2>1, <2>2, <2>3, AddedClock
<1>3. ASSUME NEW id \in EpochIds PROVE ClockOK(id)' /\ ClockStep(id)
  BY <1>2 DEF ClocksOK, ClockOK, ClockStep, T!Idle
<1> QED
  BY <1>1, <1>3 DEF ClocksOK

\* Every step of the module keeps the invariant and is a step of each clock.
LEMMA EpochsStep ==
    ASSUME ClocksOK, EpochsNext
    PROVE  ClocksOK' /\ \A id \in EpochIds : ClockStep(id)
<1>1. PICK dt \in 0..MaxStep : BeginBlocker(dt) \/ RestartEpochs(dt)
  BY DEF EpochsNext
<1>2. dt \in Nat
  BY EpochsAssumption
<1> QED
  BY <1>1, <1>2, BlockStep, RestartStep

\* The epochs module implements the safety half of PeriodicTimers: for every
\* identifier the epochs are numbered without a gap, the first does not begin
\* before its start time and none ends before its duration is over, whatever
\* the times of the blocks, across every export (BeginBlocker, InitGenesis).
THEOREM EpochsRefineTimers == EpochsSpec => T!TimersSafe
<1>1. EpochsInit => ClocksOK /\ T!TimersInit
  BY InitClocks
<1>2. ClocksOK /\ [EpochsNext]_epochVars => ClocksOK'
  <2>1. CASE UNCHANGED epochVars
    BY <2>1 DEF epochVars, ClocksOK, ClockOK
  <2> QED
    BY <2>1, EpochsStep
<1>3. ClocksOK /\ [EpochsNext]_epochVars =>
        [T!TimersNext]_<<[id \in EpochIds |-> epochs[id].number],
                         [id \in EpochIds |-> epochs[id].began]>>
  <2>1. CASE UNCHANGED epochVars
    BY <2>1 DEF epochVars
  <2> QED
    BY <2>1, EpochsStep DEF ClockStep, T!TimersNext
<1> QED
  BY <1>1, <1>2, <1>3, PTL DEF EpochsSpec, T!TimersSafe

-----------------------------------------------------------------------------

\* One epoch more is one duration more.
LEMMA OneDurationMore ==
    ASSUME NEW n \in Nat, NEW d \in Nat
    PROVE  ((n + 1) - 1) * d = (n - 1) * d + d
  BY SMT

\* No clock runs fast, whatever the sequence of blocks and exports: the n-th
\* epoch begins at least n - 1 durations after the start time (BeginBlocker
\* sets the begin of an epoch to the time of the block, never to a sum).
THEOREM EpochsNeverEarly == EpochsSpec => []NeverEarly
<1>1. EpochsInit => ClocksOK /\ NeverEarly
  BY InitClocks DEF ClocksOK, ClockOK, NeverEarly, T!TimersInit
<1>2. ASSUME ClocksOK, NeverEarly, EpochsNext PROVE NeverEarly'
  <2>1. SUFFICES ASSUME NEW id \in EpochIds, epochs'[id].counting
                 PROVE  epochs'[id].start + (epochs'[id].number - 1) * epochs'[id].duration
                            <= epochs'[id].began
    BY DEF NeverEarly
  <2>2. ClocksOK' /\ ClockStep(id)
    BY <1>2, EpochsStep
  <2>3. /\ epochs[id] \in EpochInfos /\ epochs'[id] \in EpochInfos
        /\ epochs'[id].start = epochs[id].start
        /\ epochs'[id].start = GenesisStart(id)
        /\ epochs'[id].duration = epochs[id].duration
        /\ epochs'[id].duration = GenesisEpochs[id].duration
        /\ epochs[id].counting <=> epochs[id].number > 0
        /\ epochs'[id].number > 0
    BY <1>2, <2>1, <2>2 DEF ClocksOK, ClockOK
  <2>4. CASE T!Begin(id)
    <3>1. epochs'[id].number = 1 /\ epochs'[id].began >= epochs'[id].start
      BY <2>3, <2>4 DEF T!Begin
    <3> QED
      BY <2>3, <3>1 DEF EpochInfos
  <2>5. CASE T!Tick(id)
    <3>1. /\ epochs[id].number > 0
          /\ epochs'[id].number = epochs[id].number + 1
          /\ epochs'[id].began >= epochs[id].began + epochs[id].duration
      BY <2>3, <2>5 DEF T!Tick
    <3>2. epochs[id].start + (epochs[id].number - 1) * epochs[id].duration
              <= epochs[id].began
      BY <1>2, <2>3, <3>1 DEF NeverEarly
    <3>3. (epochs'[id].number - 1) * epochs'[id].duration
              = (epochs[id].number - 1) * epochs[id].duration + epochs[id].duration
      BY <2>3, <3>1, OneDurationMore DEF EpochInfos
    <3> DEFINE past == (epochs[id].number - 1) * epochs[id].duration
    <3>4. past \in Int
      BY <2>3 DEF EpochInfos
    <3> HIDE DEF past
    <3> QED
      BY <2>3, <3>1, <3>2, <3>3, <3>4 DEF EpochInfos, past
  <2>6. CASE T!Idle(id)
    <3>1. epochs'[id].number = epochs[id].number /\ epochs'[id].began = epochs[id].began
      BY <2>6 DEF T!Idle
    <3> QED
      BY <1>2, <2>3, <3>1 DEF NeverEarly
  <2> QED
    BY <2>2, <2>4, <2>5, <2>6 DEF ClockStep
<1>3. ClocksOK /\ NeverEarly /\ [EpochsNext]_epochVars => ClocksOK' /\ NeverEarly'
  <2>1. CASE UNCHANGED epochVars
    BY <2>1 DEF epochVars, ClocksOK, ClockOK, NeverEarly
  <2> QED
    BY <2>1, <1>2, EpochsStep
<1> QED
  BY <1>1, <1>3, PTL DEF EpochsSpec

-----------------------------------------------------------------------------
(* What the modules that listen to the clocks need of them. *)

\* The genesis file is imported with the type of the clocks.
LEMMA InitTyped ==
    ASSUME EpochsInit
    PROVE  ClocksOK /\ EpochsTypeOK
<1>1. ClocksOK
  BY InitClocks
<1>2. epochs = [id \in EpochIds |-> AddEpochInfo(GenesisEpochs[id], time, height)]
  BY EpochsAssumption DEF EpochsInit, InitGenesis
<1>3. epochs \in [EpochIds -> EpochInfos]
  BY <1>1, <1>2 DEF ClocksOK, ClockOK
<1> QED
  BY <1>1, <1>3, EpochsAssumption DEF EpochsInit, EpochsTypeOK

\* So does every block leave them,
LEMMA BlockTyped ==
    ASSUME ClocksOK, EpochsTypeOK, NEW dt \in Nat, BeginBlocker(dt)
    PROVE  ClocksOK' /\ EpochsTypeOK'
<1>1. ClocksOK'
  BY BlockStep
<1>2. epochs' = [id \in EpochIds |->
                    IF Starts(epochs[id], time')
                    THEN StartEpoch(epochs[id], time', height') ELSE epochs[id]]
  BY DEF ClocksOK, BeginBlocker, AfterBlock
<1>3. epochs' \in [EpochIds -> EpochInfos]
  BY <1>1, <1>2 DEF ClocksOK, ClockOK
<1>4. time' \in 0..MaxTime /\ height' \in Nat /\ restarts' \in 0..MaxRestarts
  BY EpochsAssumption DEF BeginBlocker, EpochsTypeOK
<1> QED
  BY <1>1, <1>3, <1>4 DEF EpochsTypeOK

\* and every restart.
LEMMA RestartTyped ==
    ASSUME ClocksOK, EpochsTypeOK, NEW dt \in Nat, RestartEpochs(dt)
    PROVE  ClocksOK' /\ EpochsTypeOK'
<1>1. ClocksOK'
  BY RestartStep
<1>2. epochs' = [id \in EpochIds |-> AddEpochInfo(epochs[id], time', height')]
  BY DEF ClocksOK, RestartEpochs, InitGenesis
<1>3. epochs' \in [EpochIds -> EpochInfos]
  BY <1>1, <1>2 DEF ClocksOK, ClockOK
<1>4. time' \in 0..MaxTime /\ height' \in Nat /\ restarts' \in 0..MaxRestarts
  BY EpochsAssumption DEF RestartEpochs, EpochsTypeOK
<1> QED
  BY <1>1, <1>3, <1>4 DEF EpochsTypeOK

-----------------------------------------------------------------------------
(* sdk.Dec.Power *)

\* The states of the loop of Power.
PowerStates == [i : Nat, d : Nat, tmp : Nat]

\* A turn of the loop keeps natural numbers.
LEMMA PowerRoundType ==
    ASSUME NEW s \in PowerStates
    PROVE  PowerRound(s) \in PowerStates
<1>1. s.i \in Nat /\ s.d \in Nat /\ s.tmp \in Nat
  BY DEF PowerStates
<1>2. Mul(s.d, s.d) \in Nat /\ Mul(s.tmp, s.d) \in Nat /\ s.i \div 2 \in Nat
  <2>1. \A n \in Nat : n \div 2 \in Nat
    BY SMT
  <2> QED BY <1>1, <2>1, MulBounds, Zenon
<1> DEFINE t == IF s.i % 2 # 0 THEN Mul(s.tmp, s.d) ELSE s.tmp
<1>3. t \in Nat
  BY <1>1, <1>2
<1> HIDE DEF t
<1>4. [i |-> s.i \div 2, d |-> Mul(s.d, s.d), tmp |-> t] \in PowerStates
  BY <1>2, <1>3 DEF PowerStates
<1> QED BY <1>4 DEF PowerRound, t

\* The loop as a function of the number of rounds.
IsLoop(g, start, n) ==
    g = [k \in 0..n |-> IF k = 0 THEN start ELSE PowerRound(g[k - 1])]

\* The loop has n states after its start, for every n.
LEMMA LoopExists ==
    ASSUME NEW start, NEW n \in Nat
    PROVE  \E g : IsLoop(g, start, n)
<1> DEFINE Bad == {m \in Nat : ~ \E g : IsLoop(g, start, m)}
<1> SUFFICES ASSUME Bad # {} PROVE FALSE
  OBVIOUS
<1>1. PICK m \in Bad : \A k \in Bad : m <= k
  BY LeastNatural
<1>2. m # 0
  <2> DEFINE h == [k \in 0..0 |-> start]
  <2>1. IsLoop(h, start, 0)
    BY DEF IsLoop
  <2> QED BY <2>1
<1>3. m - 1 \in Nat /\ m - 1 \notin Bad
  BY <1>1, <1>2
<1>4. PICK g : IsLoop(g, start, m - 1)
  BY <1>3
<1> DEFINE h == [k \in 0..m |-> IF k < m THEN g[k] ELSE PowerRound(g[m - 1])]
<1>5. IsLoop(h, start, m)
  <2>1. \A k \in 0..m : h[k] = IF k = 0 THEN start ELSE PowerRound(h[k - 1])
    <3> SUFFICES ASSUME NEW k \in 0..m
                 PROVE  h[k] = IF k = 0 THEN start ELSE PowerRound(h[k - 1])
      OBVIOUS
    <3>1. CASE k < m
      BY <1>3, <1>4, <3>1 DEF IsLoop
    <3>2. CASE k = m
      BY <1>2, <1>3, <3>2
    <3> QED BY <3>1, <3>2
  <2> QED BY <2>1 DEF IsLoop
<1> QED BY <1>5

\* All its states are natural numbers.
LEMMA LoopType ==
    ASSUME NEW start \in PowerStates, NEW n \in Nat, NEW g, IsLoop(g, start, n)
    PROVE  g[n] \in PowerStates
<1> DEFINE Bad == {k \in 0..n : g[k] \notin PowerStates}
<1>1. ASSUME Bad # {} PROVE FALSE
  <2>1. PICK m \in Bad : \A k \in Bad : m <= k
    <3>1. Bad \subseteq Nat
      OBVIOUS
    <3> HIDE DEF Bad
    <3> QED BY <1>1, <3>1, LeastNatural
  <2>2. m # 0
    BY DEF IsLoop
  <2>3. g[m - 1] \in PowerStates
    BY <2>1, <2>2
  <2>4. g[m] = PowerRound(g[m - 1])
    BY <2>2 DEF IsLoop
  <2> QED BY <2>3, <2>4, PowerRoundType
<1> QED BY <1>1

\* A power of a decimal that is not negative is not negative.
LEMMA DecPowerType ==
    ASSUME NEW d \in Nat, NEW n \in Nat
    PROVE  DecPower(d, n) \in Nat
<1> DEFINE start == [i |-> n, d |-> d, tmp |-> One]
           g == CHOOSE loop : IsLoop(loop, start, n)
<1>1. start \in PowerStates
  BY ScaleAssumption DEF PowerStates, One
<1>2. IsLoop(g, start, n)
  <2> HIDE DEF start
  <2> QED BY LoopExists, Zenon
<1>3. g[n] \in PowerStates
  <2> HIDE DEF g, start
  <2> QED BY <1>1, <1>2, LoopType
<1>4. DecPower(d, n) = IF n = 0 THEN One ELSE Mul(g[n].d, g[n].tmp)
  BY Zenon DEF DecPower, IsLoop
<1> HIDE DEF g
<1>5. Mul(g[n].d, g[n].tmp) \in Nat
  BY <1>3, MulBounds DEF PowerStates
<1> QED BY <1>4, <1>5, ScaleAssumption DEF One

-----------------------------------------------------------------------------
(* The provision of an epoch. *)

\* The long-term part of the provision.
LongTerm == QuoInt(calculation.c, epochsPerPeriod) * PowerReduction

\* A provision is a natural number, and with a positive length its long-term part or
\* more.
LEMMA Provision ==
    ASSUME epochsPerPeriod \in Nat, calculation \in Calculations, period \in Nat
    PROVE  /\ CalculateEpochMintProvision \in Nat
           /\ epochsPerPeriod = 0 => CalculateEpochMintProvision = 0
           /\ epochsPerPeriod # 0 =>
                 LongTerm \in Nat /\ LongTerm <= CalculateEpochMintProvision
<1> DEFINE epp == epochsPerPeriod
           C == calculation.c
           decay == One - calculation.r
           x == Mul(calculation.a, DecPower(decay, period))
           y == x + C
           q == Quot(y, epp)
           l == Quot(C, epp)
<1>1. epp \in Nat /\ C \in Nat /\ PowerReduction \in Nat \ {0}
  BY InflationAssumption DEF ValidateExponentialCalculation
<1>2. x \in Nat
  <2>1. decay \in Nat /\ calculation.a \in Nat
    BY InflationAssumption, ScaleAssumption DEF One, ValidateExponentialCalculation
  <2> HIDE DEF decay
  <2>2. DecPower(decay, period) \in Nat
    BY <2>1, DecPowerType
  <2> QED BY <2>1, <2>2, MulBounds
<1>3. /\ CalculateEpochMintProvision = IF epp = 0 THEN 0 ELSE q * PowerReduction
      /\ LongTerm = l * PowerReduction
  BY Zenon DEF CalculateEpochMintProvision, LongTerm, QuoInt
<1> HIDE DEF x, C
<1>4. CASE epp = 0
  BY <1>3, <1>4
<1>5. CASE epp # 0
  <2>0. y \in Nat /\ C <= y /\ epp \in Nat \ {0}
    BY <1>1, <1>2, <1>5
  <2> HIDE DEF y
  <2>1. /\ q \in Nat /\ y < epp * (q + 1)
    BY <2>0, QuotBounds, Zenon
  <2>2. /\ l \in Nat /\ epp * l <= C
    BY <1>1, <2>0, QuotBounds, Zenon
  <2> HIDE DEF q, l
  <2>4. epp * l < epp * (q + 1)
    BY <1>1, <2>0, <2>1, <2>2, Products
  <2>5. l < q + 1
    BY <1>1, <1>5, <2>1, <2>2, <2>4, Signs
  <2>6. PowerReduction * l <= PowerReduction * q
    BY <1>1, <2>1, <2>2, <2>5, Signs
  <2>7. q * PowerReduction \in Nat /\ l * PowerReduction \in Nat
        /\ l * PowerReduction <= q * PowerReduction
    BY <1>1, <2>1, <2>2, <2>6
  <2> QED BY <1>3, <1>5, <2>7
<1> QED BY <1>4, <1>5

-----------------------------------------------------------------------------
(* The accounts. *)

Balances == [{"feeCollector", "communityPool", "inflation"} -> Nat]

\* The balances after an allocation.
Updated(b, x, y, z) == [b EXCEPT !.feeCollector = x, !.communityPool = y, !.inflation = z]

\* The balances written are the ones read.
LEMMA UpdatedBalances ==
    ASSUME NEW b \in Balances, NEW x \in Nat, NEW y \in Nat, NEW z \in Nat
    PROVE  /\ Updated(b, x, y, z) \in Balances
           /\ Updated(b, x, y, z).feeCollector = x
           /\ Updated(b, x, y, z).communityPool = y
           /\ Updated(b, x, y, z).inflation = z
  BY Zenon DEF Balances, Updated

\* A share of an amount, truncated.
LEMMA Proportion ==
    ASSUME NEW m \in Nat, NEW share \in Nat
    PROVE  /\ GetProportions(m, share) \in Nat
           /\ Scale * GetProportions(m, share) <= m * share
           /\ m * share < Scale * GetProportions(m, share) + Scale
<1> DEFINE v == m * share
           q == Quot(v, Scale)
<1>1. v \in Nat /\ Scale \in Nat \ {0}
  BY ScaleAssumption
<1>2. GetProportions(m, share) = q
  BY MulExact DEF GetProportions, TruncateInt
<1> HIDE DEF v
<1>3. q \in Nat /\ Scale * q <= v /\ v < Scale * (q + 1)
  BY <1>1, QuotBounds, Zenon
<1> HIDE DEF q
<1>4. Scale * (q + 1) = Scale * q + Scale
  BY <1>1, <1>3
<1> QED BY <1>2, <1>3, <1>4 DEF v

\* An allocation gives every minted coin to one of the accounts, and the reserve its
\* share and less than two coins more (AllocateExponentialInflation).
LEMMA Allocation ==
    ASSUME NEW b \in Balances, NEW m \in Nat, NEW c, c = MintAndAllocateInflation(b, m),
           distribution \in Distributions
    PROVE  /\ c \in Balances
           /\ c.feeCollector + c.communityPool + c.inflation
                = b.feeCollector + b.communityPool + b.inflation + m
           /\ b.inflation * Scale + m * distribution.strategicReserves <= c.inflation * Scale
           /\ c.inflation * Scale
                <= b.inflation * Scale + m * distribution.strategicReserves + 2 * Scale
<1> DEFINE StakingRewards == distribution.stakingRewards
           CommunityPool == distribution.communityPool
           StrategicReserves == distribution.strategicReserves
           st == GetProportions(m, StakingRewards)
           cp == GetProportions(m, CommunityPool)
           rest == m - st - cp
<1>1. /\ StakingRewards \in Nat /\ CommunityPool \in Nat /\ StrategicReserves \in Nat
      /\ StakingRewards + CommunityPool + StrategicReserves = Scale
      /\ Scale \in Nat \ {0}
  BY InflationAssumption, ScaleAssumption DEF One, ValidateInflationDistribution
<1>2. /\ st \in Nat /\ Scale * st <= m * StakingRewards
      /\ m * StakingRewards < Scale * st + Scale
  BY <1>1, Proportion, Zenon
<1>3. /\ cp \in Nat /\ Scale * cp <= m * CommunityPool
      /\ m * CommunityPool < Scale * cp + Scale
  BY <1>1, Proportion, Zenon
<1>4. c = [b EXCEPT !.feeCollector = b.feeCollector + st,
                    !.communityPool = b.communityPool + cp,
                    !.inflation = b.inflation + m - st - cp]
  BY Zenon DEF MintAndAllocateInflation
<1> HIDE DEF st, cp, StakingRewards, CommunityPool, StrategicReserves
<1>5. /\ m * StakingRewards + m * CommunityPool + m * StrategicReserves = m * Scale
      /\ m * StakingRewards \in Nat /\ m * CommunityPool \in Nat
      /\ m * StrategicReserves \in Nat /\ m * Scale \in Nat
      /\ Scale * st \in Nat /\ Scale * cp \in Nat
  BY <1>1, <1>2, <1>3
<1>6. Scale * rest = m * Scale - Scale * st - Scale * cp /\ rest \in Int
  BY <1>1, <1>2, <1>3
<1>7. /\ m * StrategicReserves <= Scale * rest
      /\ Scale * rest <= m * StrategicReserves + 2 * Scale
  BY <1>1, <1>2, <1>3, <1>5, <1>6
<1>8. rest >= 0
  <2>1. Scale * 0 <= Scale * rest
    BY <1>1, <1>5, <1>6, <1>7
  <2> QED BY <1>1, <1>6, <2>1, Signs
<1>9. b.feeCollector \in Nat /\ b.communityPool \in Nat /\ b.inflation \in Nat
  BY DEF Balances
<1>10. b.inflation + m - st - cp = b.inflation + rest
  BY <1>2, <1>3, <1>9
<1> HIDE DEF rest
<1>11. /\ b.feeCollector + st \in Nat /\ b.communityPool + cp \in Nat
       /\ b.inflation + m - st - cp \in Nat
  BY <1>2, <1>3, <1>6, <1>8, <1>9, <1>10
<1>12. /\ c \in Balances
       /\ c.feeCollector = b.feeCollector + st
       /\ c.communityPool = b.communityPool + cp
       /\ c.inflation = b.inflation + m - st - cp
  <2> DEFINE x == b.feeCollector + st
             y == b.communityPool + cp
             z == b.inflation + m - st - cp
  <2>1. x \in Nat /\ y \in Nat /\ z \in Nat
    BY <1>11
  <2>2. c = Updated(b, x, y, z)
    BY <1>4, Zenon DEF Updated
  <2> HIDE DEF x, y, z
  <2> DEFINE u == Updated(b, x, y, z)
  <2>3. u \in Balances /\ u.feeCollector = x /\ u.communityPool = y /\ u.inflation = z
    BY <2>1, UpdatedBalances
  <2> HIDE DEF u
  <2>4. c \in Balances /\ c.feeCollector = x /\ c.communityPool = y /\ c.inflation = z
    BY <2>2, <2>3 DEF u
  <2> QED BY <2>4 DEF x, y, z
<1>13. c.feeCollector + c.communityPool + c.inflation
         = b.feeCollector + b.communityPool + b.inflation + m
  BY <1>2, <1>3, <1>9, <1>12
<1>14. c.inflation * Scale = b.inflation * Scale + Scale * rest
  <2>1. (b.inflation + rest) * Scale = b.inflation * Scale + Scale * rest
    BY <1>1, <1>6, <1>9
  <2> QED BY <1>10, <1>12, <2>1
<1>15. b.inflation * Scale \in Nat /\ Scale * rest \in Int
  BY <1>1, <1>6, <1>9
<1>16. /\ b.inflation * Scale + m * StrategicReserves <= c.inflation * Scale
       /\ c.inflation * Scale <= b.inflation * Scale + m * StrategicReserves + 2 * Scale
  BY <1>1, <1>5, <1>7, <1>14, <1>15
<1> QED BY <1>12, <1>13, <1>16 DEF StrategicReserves

-----------------------------------------------------------------------------
(* The invariants. *)

Day == epochs[DayEpochID]

\* The state of both modules, with the length of the period a natural number.
Typed ==
    /\ ClocksOK
    /\ TypeOK

\* The number of the day epoch counts the days that ended, each either active or
\* skipped, and coins are minted only on active days.
DaysOK ==
    /\ Day.number = 0 => history.active = 0 /\ skipped = 0
    /\ Day.number # 0 => Day.number - 1 = history.active + skipped
    /\ history.mints <= history.active

PeriodOK ==
    /\ period > 0 => \E epp \in EpochsPerPeriods \ {0} : history.active > epp * period
    /\ \E epp \in EpochsPerPeriods \ {0} : history.mints <= epp * (period + 1)

AllocatedOK ==
    /\ history.minted = bank.feeCollector + bank.communityPool + bank.inflation
    /\ history.shares <= bank.inflation * Scale
    /\ bank.inflation * Scale <= history.shares + 2 * Scale * history.mints

HaltOK == halted => enabled /\ epochsPerPeriod > 0 /\ LongTerm < One

IInv == Typed /\ DaysOK /\ PeriodOK /\ AllocatedOK /\ HaltOK

Histories == [{"mints", "active", "minted", "shares", "votes"} -> Nat]

\* What Typed says of each variable.
LEMMA TypedFacts ==
    ASSUME Typed
    PROVE  /\ ClocksOK /\ EpochsTypeOK
           /\ enabled \in BOOLEAN /\ halted \in BOOLEAN
           /\ epochsPerPeriod \in EpochsPerPeriods /\ epochsPerPeriod \in Nat
           /\ calculation \in Calculations /\ distribution \in Distributions
           /\ period \in Nat /\ skipped \in Nat
           /\ bank \in Balances /\ history \in Histories
           /\ history.mints \in Nat /\ history.active \in Nat
           /\ history.minted \in Nat /\ history.votes \in Nat /\ history.shares \in Nat
           /\ Day \in EpochInfos /\ Day.number \in Nat
           /\ Day.counting <=> Day.number > 0
           /\ DayEpochID \in EpochIds
<1>1. DayEpochID \in EpochIds /\ EpochsPerPeriods \subseteq Nat
  BY InflationAssumption
<1>2. Day \in EpochInfos /\ (Day.counting <=> Day.number > 0)
  BY <1>1 DEF Typed, ClocksOK, ClockOK, Day
<1>3. Day.number \in Nat
  BY <1>2 DEF EpochInfos
<1> QED BY <1>1, <1>2, <1>3 DEF Typed, TypeOK, Balances, Histories

\* Genesis satisfies the inductive invariant.
LEMMA InitOK == Init => IInv
<1> SUFFICES ASSUME Init PROVE IInv
  OBVIOUS
<1>1. ClocksOK /\ EpochsTypeOK /\ Day.number = 0
  <2>1. EpochsInit
    BY DEF Init
  <2>2. T!TimersInit
    BY <2>1, InitClocks
  <2>3. Day.number = 0
    BY <2>2, InflationAssumption DEF T!TimersInit, Day
  <2> QED BY <2>1, <2>3, InitTyped
<1>2. /\ history.mints = 0 /\ history.active = 0 /\ history.minted = 0
      /\ history.shares = 0
      /\ skipped = 0 /\ period = 0 /\ halted = FALSE
      /\ bank.feeCollector = 0 /\ bank.communityPool = 0 /\ bank.inflation = 0
      /\ enabled = TRUE /\ epochsPerPeriod \in EpochsPerPeriods
      /\ calculation \in Calculations /\ distribution \in Distributions
  BY InflationAssumption DEF Init
<1>3. bank \in [{"feeCollector", "communityPool", "inflation"} -> Nat]
      /\ history \in [{"mints", "active", "minted", "shares", "votes"} -> Nat]
  BY DEF Init
<1>4. Typed
  BY <1>1, <1>2, <1>3 DEF Typed, TypeOK
<1>5. DaysOK
  BY <1>1, <1>2 DEF DaysOK
<1>6. PeriodOK
  <2>1. GenesisEpochsPerPeriod \in EpochsPerPeriods \ {0} /\ GenesisEpochsPerPeriod \in Nat
    BY InflationAssumption
  <2>2. history.mints <= GenesisEpochsPerPeriod * (period + 1)
    BY <1>2, <2>1
  <2> QED BY <1>2, <2>1, <2>2 DEF PeriodOK
<1>7. AllocatedOK
  BY <1>2, ScaleAssumption, InflationAssumption DEF AllocatedOK
<1> QED BY <1>2, <1>4, <1>5, <1>6, <1>7 DEF IInv, HaltOK

\* What a block does to the day clock: the number goes up by one exactly when the
\* day ended or the first one began.
LEMMA DayInBlock ==
    ASSUME Typed, NEW dt \in Nat, BeginBlocker(dt)
    PROVE  /\ DayEpochID \in EpochEnds(epochs, time')
                => Day.number > 0 /\ Day'.number = Day.number + 1
           /\ DayEpochID \notin EpochEnds(epochs, time')
                => Day'.number = Day.number \/ (Day.number = 0 /\ Day'.number = 1)
<1>1. /\ ClocksOK /\ DayEpochID \in EpochIds /\ Day \in EpochInfos /\ Day.number \in Nat
      /\ Day.counting <=> Day.number > 0
  BY TypedFacts
<1>2. time' \in Nat /\ height' \in Nat
  BY <1>1 DEF ClocksOK, BeginBlocker
<1>3. /\ DOMAIN epochs = EpochIds
      /\ Day' = IF Starts(Day, time') THEN StartEpoch(Day, time', height') ELSE Day
  BY <1>1 DEF ClocksOK, BeginBlocker, AfterBlock, Day
<1>4. DayEpochID \in EpochEnds(epochs, time') <=> Day.counting /\ Starts(Day, time')
  BY <1>1, <1>3 DEF EpochEnds, Day
<1>5. CASE Starts(Day, time')
  <2> DEFINE s == StartEpoch(Day, time', height')
  <2>1. /\ s \in EpochInfos
        /\ s.start = Day.start
        /\ s.duration = Day.duration
        /\ s.began = time'
        /\ s.counting = TRUE
        /\ s.number = IF Day.counting THEN Day.number + 1 ELSE 1
    <3>1. Day \in EpochInfos /\ time' \in Nat /\ height' \in Nat
      BY <1>1, <1>2
    <3> QED BY <3>1, StartedClock
  <2> HIDE DEF s
  <2>2. Day' = s
    BY <1>3, <1>5 DEF s
  <2> QED BY <1>1, <1>4, <1>5, <2>1, <2>2
<1>6. CASE ~ Starts(Day, time')
  BY <1>3, <1>4, <1>6
<1> QED BY <1>5, <1>6

Recorded(h, x, y, z, w) ==
    [h EXCEPT !.mints = x, !.active = y, !.minted = z, !.shares = w]

\* The counters written are the ones read.
LEMMA RecordedHistory ==
    ASSUME NEW h \in Histories, NEW x \in Nat, NEW y \in Nat, NEW z \in Nat, NEW w \in Nat
    PROVE  /\ Recorded(h, x, y, z, w) \in Histories
           /\ Recorded(h, x, y, z, w).mints = x
           /\ Recorded(h, x, y, z, w).active = y
           /\ Recorded(h, x, y, z, w).minted = z
           /\ Recorded(h, x, y, z, w).shares = w
  BY Zenon DEF Histories, Recorded

\* What minting does: a coin or more is minted, and a period ends only after more
\* active days than its length asks for.
LEMMA MintEffect ==
    ASSUME IInv, Mint(Day.number), Day.number > 0
    PROVE  /\ epochsPerPeriod # 0
           /\ \E m \in Nat :
                 /\ bank' = MintAndAllocateInflation(bank, m)
                 /\ history'.minted = history.minted + m
                 /\ history'.shares = history.shares + m * distribution.strategicReserves
           /\ history' \in Histories
           /\ history'.mints = history.mints + 1
           /\ history'.active = history.active + 1
           /\ \/ period' = period + 1
                 /\ history.active + 1 > epochsPerPeriod * (period + 1)
              \/ period' = period
                 /\ history.active + 1 <= epochsPerPeriod * (period + 1)
           /\ UNCHANGED <<enabled, epochsPerPeriod, calculation, distribution, skipped, halted>>
<1> DEFINE m == MintedCoin
           e == epochsPerPeriod
           share == distribution.strategicReserves
<1>1. /\ enabled /\ m > 0
      /\ bank' = MintAndAllocateInflation(bank, m)
      /\ period' = IF PeriodPassed(Day.number) THEN period + 1 ELSE period
      /\ history' = Recorded(history, history.mints + 1, history.active + 1,
                             history.minted + m, history.shares + m * share)
      /\ UNCHANGED <<params, skipped, halted>>
  BY Zenon DEF Mint, Recorded
<1>2. /\ e \in EpochsPerPeriods /\ e \in Nat /\ period \in Nat /\ skipped \in Nat
      /\ history \in Histories /\ Day.number \in Nat
      /\ history.mints \in Nat /\ history.active \in Nat /\ history.minted \in Nat
      /\ history.shares \in Nat /\ calculation \in Calculations
      /\ distribution \in Distributions
  BY TypedFacts DEF IInv
<1>3. CalculateEpochMintProvision \in Nat /\ (e = 0 => CalculateEpochMintProvision = 0)
  BY <1>2, Provision
<1>4. e # 0
  <2>1. ASSUME CalculateEpochMintProvision = 0 PROVE m = 0
    <3>1. Scale \in Nat \ {0}
      BY ScaleAssumption
    <3>2. m \in Nat /\ Scale * m <= 0
      BY <2>1, <3>1, QuotBounds DEF MintedCoin, TruncateInt
    <3> HIDE DEF m
    <3>3. ASSUME m > 0 PROVE FALSE
      <4>1. Scale * 1 <= Scale * m
        BY <3>1, <3>2, <3>3, Signs
      <4> QED BY <3>1, <3>2, <4>1
    <3> QED BY <3>2, <3>3
  <2> QED BY <1>1, <1>3, <2>1
<1>5. m \in Nat
  <2>1. Scale \in Nat \ {0}
    BY ScaleAssumption
  <2> QED BY <1>3, <2>1, QuotBounds, Zenon DEF MintedCoin, TruncateInt
<1> HIDE DEF m
<1>6. PeriodPassed(Day.number) <=> history.active + 1 > e * (period + 1)
  <2>1. Day.number - 1 = history.active + skipped
    BY <1>2 DEF IInv, DaysOK
  <2>2. e * (period + 1) = e * period + e /\ e * period \in Nat
    BY <1>2
  <2>3. PeriodPassed(Day.number) <=> Day.number - e * period - skipped > e
    BY DEF PeriodPassed
  <2> QED BY <1>2, <2>1, <2>2, <2>3
<1>7. e * (period + 1) \in Nat
  BY <1>2
<1>8. /\ history' \in Histories
      /\ history'.mints = history.mints + 1
      /\ history'.active = history.active + 1
      /\ history'.minted = history.minted + m
      /\ history'.shares = history.shares + m * share
  <2> DEFINE x == history.mints + 1
             y == history.active + 1
             z == history.minted + m
             w == history.shares + m * share
             h == Recorded(history, x, y, z, w)
  <2>1. x \in Nat /\ y \in Nat /\ z \in Nat /\ history \in Histories
    BY <1>2, <1>5
  <2>2. w \in Nat
    <3>1. share \in Nat
      BY <1>2, InflationAssumption DEF ValidateInflationDistribution
    <3> QED BY <1>2, <1>5, <3>1
  <2> HIDE DEF x, y, z, w
  <2>3. h \in Histories /\ h.mints = x /\ h.active = y /\ h.minted = z /\ h.shares = w
    BY <2>1, <2>2, RecordedHistory
  <2> HIDE DEF h
  <2>4. history' = h
    BY <1>1, Zenon DEF h, x, y, z, w
  <2> QED BY <2>3, <2>4 DEF x, y, z, w
<1>10. \/ period' = period + 1 /\ history.active + 1 > e * (period + 1)
       \/ period' = period /\ history.active + 1 <= e * (period + 1)
  BY <1>1, <1>2, <1>6, <1>7
<1>11. UNCHANGED <<enabled, epochsPerPeriod, calculation, distribution, skipped, halted>>
  BY <1>1 DEF params
<1>12. \E k \in Nat : /\ bank' = MintAndAllocateInflation(bank, k)
                      /\ history'.minted = history.minted + k
                      /\ history'.shares = history.shares + k * share
  BY <1>1, <1>5, <1>8
<1> QED BY <1>4, <1>8, <1>10, <1>11, <1>12

\* One mint more allows the reserve two coins more.
LEMMA TwiceMore ==
    ASSUME NEW s \in Nat, NEW n \in Nat
    PROVE  2 * s * (n + 1) = 2 * s * n + 2 * s
  BY SMT

\* One period more is at least one day more.
LEMMA OnePeriodMore ==
    ASSUME NEW e \in Nat \ {0}, NEW p \in Nat
    PROVE  e * (p + 1) + 1 <= e * ((p + 1) + 1) /\ e * (p + 1) \in Nat
  BY SMT

\* Minting keeps the three parts of the invariant.
LEMMA MintKeeps ==
    ASSUME IInv, ~halted, Mint(Day.number), Day.number > 0, ClocksOK', EpochsTypeOK',
           Day'.number = Day.number + 1
    PROVE  IInv'
<1> DEFINE e == epochsPerPeriod
           h == history
<1>1. /\ e \in EpochsPerPeriods /\ e \in Nat /\ period \in Nat /\ skipped \in Nat
      /\ bank \in Balances /\ Day.number \in Nat
      /\ h.mints \in Nat /\ h.active \in Nat /\ h.minted \in Nat /\ h.shares \in Nat
      /\ distribution \in Distributions
  BY TypedFacts DEF IInv
<1>2. /\ e # 0
      /\ history' \in Histories
      /\ history'.mints = h.mints + 1
      /\ history'.active = h.active + 1
      /\ \/ period' = period + 1 /\ h.active + 1 > e * (period + 1)
         \/ period' = period /\ h.active + 1 <= e * (period + 1)
      /\ UNCHANGED <<enabled, epochsPerPeriod, calculation, distribution, skipped, halted>>
  BY MintEffect
<1>3. PICK m \in Nat : /\ bank' = MintAndAllocateInflation(bank, m)
                       /\ history'.minted = h.minted + m
                       /\ history'.shares = h.shares + m * distribution.strategicReserves
  BY MintEffect
<1>4. /\ bank' \in Balances
      /\ bank'.feeCollector + bank'.communityPool + bank'.inflation
           = bank.feeCollector + bank.communityPool + bank.inflation + m
      /\ bank.inflation * Scale + m * distribution.strategicReserves
           <= bank'.inflation * Scale
      /\ bank'.inflation * Scale
           <= bank.inflation * Scale + m * distribution.strategicReserves + 2 * Scale
  BY <1>1, <1>3, Allocation
<1>5. period' \in Nat
  BY <1>1, <1>2
<1>6. Typed'
  <2>1. bank' \in [{"feeCollector", "communityPool", "inflation"} -> Nat]
        /\ history' \in [{"mints", "active", "minted", "shares", "votes"} -> Nat]
    BY <1>2, <1>4 DEF Balances, Histories
  <2>2. enabled' \in BOOLEAN /\ epochsPerPeriod' \in EpochsPerPeriods /\ skipped' \in Nat
        /\ calculation' \in Calculations /\ distribution' \in Distributions
        /\ halted' \in BOOLEAN
    BY <1>1, <1>2, TypedFacts DEF IInv
  <2> QED BY <1>5, <2>1, <2>2 DEF Typed, TypeOK
<1>7. DaysOK'
  <2>1. Day.number - 1 = h.active + skipped /\ h.mints <= h.active
    BY <1>1 DEF IInv, DaysOK
  <2>2. Day'.number # 0 /\ Day'.number - 1 = history'.active + skipped'
        /\ history'.mints <= history'.active
    BY <1>1, <1>2, <2>1
  <2> QED BY <2>2 DEF DaysOK
<1>8. PeriodOK'
  <2>1. h.mints <= h.active
    BY DEF IInv, DaysOK
  <2>2. e \in EpochsPerPeriods \ {0} /\ EpochsPerPeriods \subseteq Nat
    BY <1>1, <1>2, InflationAssumption
  <2>3. CASE period' = period + 1 /\ h.active + 1 > e * (period + 1)
    <3>1. history'.active > e * period'
      BY <1>2, <2>3
    <3>2. PICK f \in EpochsPerPeriods \ {0} : h.mints <= f * (period + 1)
      BY DEF IInv, PeriodOK
    <3>3. f \in Nat \ {0}
      BY <2>2
    <3>4. f * (period + 1) + 1 <= f * ((period + 1) + 1) /\ f * (period + 1) \in Nat
      BY <1>1, <3>3, OnePeriodMore
    <3>5. f * ((period + 1) + 1) \in Nat
      BY <1>1, <3>3
    <3>6. history'.mints <= f * (period' + 1)
      BY <1>1, <1>2, <2>3, <3>2, <3>4, <3>5
    <3> QED BY <2>2, <3>1, <3>6 DEF PeriodOK
  <2>4. CASE period' = period /\ h.active + 1 <= e * (period + 1)
    <3>1. history'.mints <= e * (period' + 1)
      <4>1. e * (period + 1) \in Nat
        BY <1>1
      <4> QED BY <1>1, <1>2, <2>1, <2>4, <4>1
    <3>2. ASSUME period > 0
          PROVE  \E f \in EpochsPerPeriods \ {0} : history'.active > f * period'
      <4>1. PICK f \in EpochsPerPeriods \ {0} : h.active > f * period
        BY <3>2 DEF IInv, PeriodOK
      <4>2. f * period \in Nat
        BY <1>1, <2>2
      <4>3. history'.active > f * period'
        BY <1>1, <1>2, <2>4, <4>1, <4>2
      <4> QED BY <4>3
    <3> QED BY <2>2, <2>4, <3>1, <3>2 DEF PeriodOK
  <2> QED BY <1>2, <2>3, <2>4
<1>9. AllocatedOK'
  <2> DEFINE part == m * distribution.strategicReserves
  <2>1. /\ h.minted = bank.feeCollector + bank.communityPool + bank.inflation
        /\ h.shares <= bank.inflation * Scale
        /\ bank.inflation * Scale <= h.shares + 2 * Scale * h.mints
    BY DEF IInv, AllocatedOK
  <2>2. distribution.strategicReserves \in Nat /\ Scale \in Nat
    BY <1>1, InflationAssumption, ScaleAssumption DEF ValidateInflationDistribution
  <2>3. part \in Nat /\ 2 * Scale * h.mints \in Nat
    BY <1>1, <2>2
  <2>4. 2 * Scale * (h.mints + 1) = 2 * Scale * h.mints + 2 * Scale
    BY <1>1, <2>2, TwiceMore
  <2>5. bank.inflation * Scale \in Nat /\ bank'.inflation * Scale \in Nat
    BY <1>1, <1>4, <2>2 DEF Balances
  <2>6. /\ bank.inflation * Scale + part <= bank'.inflation * Scale
        /\ bank'.inflation * Scale <= bank.inflation * Scale + part + 2 * Scale
        /\ history'.shares = h.shares + part
    BY <1>3, <1>4
  <2> HIDE DEF part
  <2>7. /\ h.shares + part <= bank'.inflation * Scale
        /\ bank'.inflation * Scale <= h.shares + part + 2 * Scale * (h.mints + 1)
    BY <1>1, <2>1, <2>2, <2>3, <2>4, <2>5, <2>6
  <2>8. h.minted + m = bank'.feeCollector + bank'.communityPool + bank'.inflation
    BY <1>4, <2>1
  <2> QED BY <1>2, <1>3, <2>6, <2>7, <2>8 DEF AllocatedOK
<1>10. HaltOK'
  BY <1>2 DEF HaltOK
<1> QED BY <1>6, <1>7, <1>8, <1>9, <1>10 DEF IInv

\* A step that mints nothing and ends no period.
LEMMA OthersKeep ==
    ASSUME IInv, ~halted, Typed', DaysOK', UNCHANGED <<period, bank, halted>>,
           history'.mints = history.mints, history'.minted = history.minted,
           history'.shares = history.shares,
           history'.active >= history.active
    PROVE  IInv'
<1>1. /\ history.active \in Nat /\ history'.active \in Nat /\ period \in Nat
      /\ EpochsPerPeriods \subseteq Nat
  <2>1. history'.active \in Nat
    BY DEF Typed, TypeOK
  <2> QED BY <2>1, TypedFacts, InflationAssumption DEF IInv
<1>2. PeriodOK'
  <2>1. ASSUME period > 0
        PROVE  \E f \in EpochsPerPeriods \ {0} : history'.active > f * period'
    <3>1. PICK f \in EpochsPerPeriods \ {0} : history.active > f * period
      BY <2>1 DEF IInv, PeriodOK
    <3>2. f * period \in Nat
      BY <1>1
    <3>3. history'.active > f * period'
      BY <1>1, <3>1, <3>2
    <3> QED BY <3>3
  <2>2. \E f \in EpochsPerPeriods \ {0} : history'.mints <= f * (period' + 1)
    BY DEF IInv, PeriodOK
  <2> QED BY <2>1, <2>2 DEF PeriodOK
<1>3. AllocatedOK'
  BY DEF IInv, AllocatedOK
<1> QED BY <1>2, <1>3 DEF IInv, HaltOK

\* The end of a day without minting: the day is skipped or active.
LEMMA EmptyDayKeeps ==
    ASSUME IInv, ~halted, SkipEpoch \/ NoProvision, Day.number > 0, ClocksOK', EpochsTypeOK',
           Day'.number = Day.number + 1
    PROVE  IInv'
<1>1. /\ enabled \in BOOLEAN /\ halted \in BOOLEAN /\ epochsPerPeriod \in EpochsPerPeriods
      /\ calculation \in Calculations /\ distribution \in Distributions
      /\ period \in Nat /\ skipped \in Nat /\ bank \in Balances /\ history \in Histories
      /\ history.active \in Nat /\ history.mints \in Nat /\ Day.number \in Nat
  BY TypedFacts DEF IInv
<1>2. /\ UNCHANGED <<enabled, epochsPerPeriod, calculation, distribution, period, bank, halted>>
      /\ \/ skipped' = skipped + 1 /\ history' = history
         \/ skipped' = skipped /\ history' = [history EXCEPT !.active = @ + 1]
  BY DEF SkipEpoch, NoProvision, params
<1>3. /\ history' \in Histories
      /\ history'.mints = history.mints /\ history'.minted = history.minted
      /\ history'.shares = history.shares
      /\ history'.active \in Nat /\ skipped' \in Nat
      /\ \/ skipped' = skipped + 1 /\ history'.active = history.active
         \/ skipped' = skipped /\ history'.active = history.active + 1
  BY <1>1, <1>2 DEF Histories
<1>4. Typed'
  BY <1>1, <1>2, <1>3 DEF Typed, TypeOK, Balances, Histories
<1>5. DaysOK'
  <2>1. Day.number - 1 = history.active + skipped /\ history.mints <= history.active
    BY <1>1 DEF IInv, DaysOK
  <2>2. Day'.number # 0 /\ Day'.number - 1 = history'.active + skipped'
        /\ history'.mints <= history'.active
    BY <1>1, <1>3, <2>1
  <2> QED BY <2>2 DEF DaysOK
<1>6. history'.active >= history.active
  BY <1>1, <1>3
<1> QED BY <1>2, <1>3, <1>4, <1>5, <1>6, OthersKeep

\* A block, whether or not a day ends in it.
LEMMA BlockKeeps ==
    ASSUME IInv, NEW dt \in Nat, Block(dt)
    PROVE  IInv'
<1>1. BeginBlocker(dt) /\ Typed /\ ~halted
  BY DEF Block, IInv
<1>2. ClocksOK' /\ EpochsTypeOK'
  BY <1>1, BlockTyped DEF Typed, TypeOK
<1>3. CASE DayEpochID \in EpochEnds(epochs, time')
  <2>1. Day.number > 0 /\ Day'.number = Day.number + 1
    BY <1>1, <1>3, DayInBlock
  <2>2. SkipEpoch \/ NoProvision \/ Mint(Day.number)
    BY <1>3 DEF Block, AfterEpochEnd, Day
  <2> QED BY <1>1, <1>2, <2>1, <2>2, MintKeeps, EmptyDayKeeps
<1>4. CASE DayEpochID \notin EpochEnds(epochs, time')
  <2>1. UNCHANGED <<enabled, epochsPerPeriod, calculation, distribution, period, skipped,
                    bank, halted, history>>
    BY <1>4 DEF Block, inflationVars, params
  <2>2. Day'.number = Day.number \/ (Day.number = 0 /\ Day'.number = 1)
    BY <1>1, <1>4, DayInBlock
  <2>3. Typed'
    BY <1>1, <1>2, <2>1 DEF Typed, TypeOK
  <2>4. DaysOK'
    BY <2>1, <2>2 DEF IInv, DaysOK
  <2>5. history'.active >= history.active
    BY <1>1, <2>1, TypedFacts
  <2> QED BY <1>1, <2>1, <2>3, <2>4, <2>5, OthersKeep
<1> QED BY <1>3, <1>4

\* A block that is never committed: the provision is below a coin, and so is its
\* long-term part.
LEMMA HaltKeeps ==
    ASSUME IInv, NEW dt \in Nat, Halt(dt)
    PROVE  IInv'
<1>1. /\ halted' = TRUE /\ enabled /\ CalculateEpochMintProvision > 0 /\ MintedCoin = 0
      /\ UNCHANGED <<epochs, time, height, restarts, enabled, epochsPerPeriod, calculation,
                     distribution, period, skipped, bank, history>>
  BY DEF Halt, HookPanics, epochVars, params
<1>2. epochsPerPeriod \in Nat /\ calculation \in Calculations /\ period \in Nat
  BY TypedFacts DEF IInv
<1> DEFINE v == CalculateEpochMintProvision
<1>3. v \in Nat /\ epochsPerPeriod # 0 /\ LongTerm \in Nat /\ LongTerm <= v
  BY <1>1, <1>2, Provision
<1>4. v < Scale
  <2>1. Scale \in Nat \ {0}
    BY ScaleAssumption
  <2>2. v < Scale * (Quot(v, Scale) + 1)
    BY <1>3, <2>1, QuotBounds
  <2>3. Quot(v, Scale) = 0
    BY <1>1 DEF MintedCoin, TruncateInt
  <2> QED BY <2>1, <2>2, <2>3
<1> HIDE DEF v
<1>5. enabled /\ epochsPerPeriod > 0 /\ LongTerm < One
  BY <1>1, <1>2, <1>3, <1>4, ScaleAssumption DEF One
<1>6. HaltOK'
  BY <1>1, <1>5 DEF HaltOK, LongTerm
<1>7. Typed'
  BY <1>1 DEF IInv, Typed, TypeOK, ClocksOK, ClockOK, EpochsTypeOK
<1>8. DaysOK' /\ PeriodOK' /\ AllocatedOK'
  BY <1>1 DEF IInv, DaysOK, Day, PeriodOK, AllocatedOK
<1> QED BY <1>6, <1>7, <1>8 DEF IInv

\* Governance changes the parameters (SetParams).
LEMMA SetParamsKeeps ==
    ASSUME IInv, NEW proposal \in Proposals, SetParams(proposal)
    PROVE  IInv'
<1>0. /\ enabled' \in BOOLEAN /\ epochsPerPeriod' \in EpochsPerPeriods
      /\ calculation' \in Calculations /\ distribution' \in Distributions
  <2>1. proposal \in BOOLEAN \X EpochsPerPeriods \X Calculations \X Distributions
    BY InflationAssumption
  <2>2. /\ proposal[1] \in BOOLEAN /\ proposal[2] \in EpochsPerPeriods
        /\ proposal[3] \in Calculations /\ proposal[4] \in Distributions
    BY <2>1
  <2> QED BY <2>2 DEF SetParams
<1>1. /\ ~halted
      /\ history' = [history EXCEPT !.votes = @ + 1]
      /\ UNCHANGED <<epochs, time, height, restarts, period, skipped, bank, halted>>
  BY DEF SetParams, epochVars
<1>2. Typed /\ history \in Histories /\ history.votes \in Nat /\ history.active \in Nat
  BY TypedFacts DEF IInv
<1>3. /\ history' \in Histories
      /\ history'.mints = history.mints /\ history'.minted = history.minted
      /\ history'.shares = history.shares
      /\ history'.active = history.active
  BY <1>1, <1>2 DEF Histories
<1>4. ClocksOK' /\ EpochsTypeOK' /\ Day' = Day
  BY <1>1, <1>2 DEF Typed, TypeOK, ClocksOK, ClockOK, EpochsTypeOK, Day
<1>5. Typed'
  BY <1>0, <1>1, <1>2, <1>3, <1>4 DEF Typed, TypeOK, Histories
<1>6. DaysOK'
  BY <1>1, <1>3, <1>4 DEF IInv, DaysOK
<1>7. history'.active >= history.active
  BY <1>2, <1>3
<1> QED BY <1>1, <1>3, <1>5, <1>6, <1>7, OthersKeep

\* An export restores period, skipped days and parameters.
LEMMA RestartKeeps ==
    ASSUME IInv, NEW dt \in Nat, Restart(dt)
    PROVE  IInv'
<1>1. /\ RestartEpochs(dt) /\ ~halted
      /\ UNCHANGED <<enabled, epochsPerPeriod, calculation, distribution, period, skipped,
                     bank, halted, history>>
  BY DEF Restart, ExportGenesis, params
<1>2. Typed /\ ClocksOK /\ DayEpochID \in EpochIds /\ history.active \in Nat
      /\ Day \in EpochInfos
  BY TypedFacts DEF IInv
<1>3. ClocksOK' /\ EpochsTypeOK'
  BY <1>1, <1>2, RestartTyped DEF Typed, TypeOK
<1>4. Day'.number = Day.number
  <2>1. Day' = AddEpochInfo(Day, time', height')
    BY <1>1, <1>2 DEF ClocksOK, RestartEpochs, InitGenesis, Day
  <2>2. Day \in GenesisInfos /\ Day.duration # 0 /\ time' \in Nat /\ height' \in Nat
    BY <1>2, <1>3 DEF EpochInfos, GenesisInfos, ClocksOK
  <2> DEFINE s == AddEpochInfo(Day, time', height')
  <2>3. s.number = Day.number
    BY <2>2, AddedClock
  <2> QED BY <2>1, <2>3
<1>5. Typed'
  BY <1>1, <1>2, <1>3 DEF Typed, TypeOK
<1>6. DaysOK'
  BY <1>1, <1>4 DEF IInv, DaysOK
<1>7. history'.active >= history.active
  BY <1>1, <1>2
<1> QED BY <1>1, <1>5, <1>6, <1>7, OthersKeep

\* A stuttering step.
LEMMA UnchangedKeeps == ASSUME IInv, UNCHANGED vars PROVE IInv'
<1>1. UNCHANGED <<epochs, time, height, restarts, enabled, epochsPerPeriod, calculation,
                  distribution, period, skipped, bank, halted, history>>
  BY DEF vars, epochVars, inflationVars, params
<1> QED BY <1>1 DEF IInv, Typed, TypeOK, ClocksOK, ClockOK, EpochsTypeOK, DaysOK, Day,
                    PeriodOK, AllocatedOK, HaltOK, LongTerm

\* Every step keeps the inductive invariant.
LEMMA NextKeeps == IInv /\ [Next]_vars => IInv'
<1> SUFFICES ASSUME IInv, Next PROVE IInv'
  BY UnchangedKeeps
<1>1. \A dt \in 0..MaxStep : dt \in Nat
  BY EpochsAssumption
<1>2. CASE \E dt \in 0..MaxStep : Block(dt) \/ Halt(dt) \/ Restart(dt)
  BY <1>1, <1>2, BlockKeeps, HaltKeeps, RestartKeeps
<1>3. CASE \E proposal \in Proposals : SetParams(proposal)
  BY <1>3, SetParamsKeeps
<1> QED BY <1>2, <1>3 DEF Next

\* The period follows the days on which inflation was on, whatever lengths
\* governance gives to the periods, however often inflation is switched off and on
\* and the chain is restarted: no day is lost or counted twice (AfterEpochEnd).
THEOREM PeriodAlwaysFollowsDays == Spec => []PeriodFollowsDays
<1>1. IInv => PeriodFollowsDays
  BY DEF IInv, DaysOK, PeriodOK, PeriodFollowsDays, DaysAccounted, Day
<1> QED BY <1>1, InitOK, NextKeeps, PTL DEF Spec

\* Whatever valid parameters governance votes for: every minted coin is in one of
\* the three accounts, the reserve has its shares and at most two coins more per
\* mint (MintAndAllocateInflation), and the hook stops the chain only while the
\* long-term part of the provision is below a coin a day (AfterEpochEnd).
THEOREM MintedAlwaysAllocated == Spec => []MintedIsAllocated
<1>1. IInv => MintedIsAllocated
  BY DEF IInv, Typed, AllocatedOK, HaltOK, LongTerm, MintedIsAllocated
<1> QED BY <1>1, InitOK, NextKeeps, PTL DEF Spec
=============================================================================
