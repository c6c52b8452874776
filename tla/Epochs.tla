------------------------------- MODULE Epochs -------------------------------
(***************************************************************************)
(* The epochs module (x/epochs): named clocks that other modules listen    *)
(* to.  Every block looks at every clock once, in key order; a clock whose *)
(* epoch is over ends it, which calls the hooks with the number of the     *)
(* epoch, and starts the next at the time of the block.  No hook writes to *)
(* the clocks and each listens to one identifier, so a block is the new    *)
(* values of the clocks together with the set of epochs that ended.        *)
(* BeforeEpochStart is empty in every listener.                            *)
(***************************************************************************)
EXTENDS Integers

CONSTANTS
    EpochIds,        \* identifiers, numbered in key order
    GenesisEpochs,   \* [EpochIds -> EpochInfo] of the genesis file
    MaxStep,         \* the longest time between two blocks
    MaxTime,         \* bound on the block time
    MaxRestarts      \* bound on exports of the state to a new chain

Unset == -1          \* the zero time.Time

\* An EpochInfo before its genesis is validated and imported.
GenesisInfos ==
    [start : Nat \cup {Unset}, duration : Nat, number : Nat, began : Nat,
     height : Nat, counting : BOOLEAN]

ASSUME EpochsAssumption ==
    /\ EpochIds \subseteq Nat
    /\ MaxStep \in Nat \ {0}
    /\ MaxTime \in Nat
    /\ MaxRestarts \in Nat
    /\ DOMAIN GenesisEpochs = EpochIds
    /\ \A id \in EpochIds :
          /\ GenesisEpochs[id] \in GenesisInfos
          /\ GenesisEpochs[id].number = 0
          /\ GenesisEpochs[id].counting = FALSE

VARIABLES
    epochs,     \* Epochs: id -> EpochInfo
    time,       \* ctx.BlockTime()
    height,     \* ctx.BlockHeight()
    restarts    \* exports so far, for the bound MaxRestarts

epochVars == <<epochs, time, height, restarts>>

EpochInfos ==
    [start : Nat, duration : Nat \ {0}, number : Nat, began : Nat,
     height : Nat, counting : BOOLEAN]

\* Validate
ValidEpochInfo(info) == info.duration # 0 /\ info.height >= 0

\* Mutant: an imported clock counts from the beginning.
AddEpochInfoReset(info, t, h) ==
    [info EXCEPT !.start = IF @ = Unset THEN t ELSE @,
                 !.height = h, !.number = 0, !.counting = FALSE]

\* AddEpochInfo, for an identifier that is not in use
AddEpochInfo(info, t, h) ==
    [info EXCEPT !.start = IF @ = Unset THEN t ELSE @,
                 !.height = h]

CanInitGenesis(genesis) == \A id \in DOMAIN genesis : ValidEpochInfo(genesis[id])
InitGenesis(genesis, t, h) ==
    [id \in DOMAIN genesis |-> AddEpochInfo(genesis[id], t, h)]

ShouldEpochStart(info, t) == ~info.counting \/ t >= info.began + info.duration

\* What a block does to one clock.
Starts(info, t) == t >= info.start /\ ShouldEpochStart(info, t)

StartEpoch(info, t, h) ==
    [info EXCEPT !.height = h,
                 !.began = t,
                 !.counting = TRUE,
                 !.number = IF info.counting THEN @ + 1 ELSE 1]

AfterBlock(infos, t, h) ==
    [id \in DOMAIN infos |->
        IF Starts(infos[id], t) THEN StartEpoch(infos[id], t, h) ELSE infos[id]]

\* The identifiers for which a block calls AfterEpochEnd, with their numbers.
EpochEnds(infos, t) ==
    {id \in DOMAIN infos : infos[id].counting /\ Starts(infos[id], t)}

EpochsInit ==
    /\ time = 0
    /\ height = 0
    /\ restarts = 0
    /\ CanInitGenesis(GenesisEpochs)
    /\ epochs = InitGenesis(GenesisEpochs, time, height)

\* A block dt after the last: the first block after genesis has its time.
BeginBlocker(dt) ==
    /\ time + dt <= MaxTime
    /\ dt = 0 => height = 0
    /\ time' = time + dt
    /\ height' = height + 1
    /\ epochs' = AfterBlock(epochs, time', height')
    /\ UNCHANGED restarts

\* ExportGenesis, and InitGenesis of a chain that starts dt later.
RestartEpochs(dt) ==
    /\ restarts < MaxRestarts
    /\ time + dt <= MaxTime
    /\ restarts' = restarts + 1
    /\ time' = time + dt
    /\ height' = 0
    /\ CanInitGenesis(epochs)
    /\ epochs' = InitGenesis(epochs, time', height')

EpochsNext == \E dt \in 0..MaxStep : BeginBlocker(dt) \/ RestartEpochs(dt)

EpochsSpec == EpochsInit /\ [][EpochsNext]_epochVars

(***************************************************************************)
(* Properties                                                              *)
(***************************************************************************)

\* The state of the clocks has its type.
EpochsTypeOK ==
    /\ epochs \in [EpochIds -> EpochInfos]
    /\ time \in 0..MaxTime
    /\ height \in Nat
    /\ restarts \in 0..MaxRestarts

\* No epoch ends early, on this chain or on one it was restored to: when the
\* n-th epoch begins, at least n - 1 durations have passed since the start
\* time, so hooks that pay, mint or charge per epoch never do so too often
\* (BeginBlocker resets the begin of an epoch to the block time).
NeverEarly ==
    \A id \in EpochIds :
        LET info == epochs[id]
        IN  info.counting =>
                info.start + (info.number - 1) * info.duration <= info.began

GenesisStart(id) ==
    IF GenesisEpochs[id].start = Unset THEN 0 ELSE GenesisEpochs[id].start

T == INSTANCE PeriodicTimers WITH
    Timers <- EpochIds,
    Start <- [id \in EpochIds |-> GenesisStart(id)],
    Duration <- [id \in EpochIds |-> GenesisEpochs[id].duration],
    Slack <- (MaxRestarts + 1) * MaxStep,
    number <- [id \in EpochIds |-> epochs[id].number],
    began <- [id \in EpochIds |-> epochs[id].began]
=============================================================================
