--------------------------- MODULE PeriodicTimers ---------------------------
(***************************************************************************)
(* What the epoch identifiers promise to the modules that listen to them:  *)
(* the periods of each are numbered 1, 2, 3, ... without a gap, each       *)
(* begins at least a duration after the one before, the first not before   *)
(* the start time, and as long as there is time left the next one begins.  *)
(***************************************************************************)
EXTENDS Integers

CONSTANTS
    Timers,
    Start, Duration,   \* by timer: earliest begin of period 1, least length
    Slack,             \* how late a period may begin
    MaxTime            \* bound: the end of time

VARIABLES
    number,   \* by timer: the period it is in, 0 before the first
    began     \* by timer: when that period began

\* The first period of a timer begins.
Begin(i) ==
    /\ number[i] = 0
    /\ number'[i] = 1
    /\ began'[i] >= Start[i]

\* A period ends and the next begins.
Tick(i) ==
    /\ number[i] > 0
    /\ number'[i] = number[i] + 1
    /\ began'[i] >= began[i] + Duration[i]

Idle(i) == number'[i] = number[i] /\ began'[i] = began[i]

\* There is time for one more period.
Due(i) ==
    LET from == IF number[i] = 0 THEN Start[i] ELSE began[i] + Duration[i]
    IN  from + Slack <= MaxTime

TimersInit == \A i \in Timers : number[i] = 0
TimersNext == \A i \in Timers : Begin(i) \/ Tick(i) \/ Idle(i)
TimersLive ==
    \A i \in Timers :
        []<>~Due(i) \/ []<><<Begin(i) \/ Tick(i)>>_<<number, began>>

TimersSafe == TimersInit /\ [][TimersNext]_<<number, began>>
TimersSpec == TimersSafe /\ TimersLive
=============================================================================
