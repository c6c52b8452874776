---------------------------- MODULE MCStablecoin ----------------------------
(* An instance of Stablecoin for TLC: one clock, of two time units.         *)
EXTENDS Stablecoin

MCGenesisEpochs ==
    <<[start |-> Unset, duration |-> 2, number |-> 0, began |-> 0,
       height |-> 0, counting |-> FALSE]>>
Reading(coll, gov) == [coll |-> coll, gov |-> gov]
MCReadings ==
    {Reading(Missing, 70), Reading(90, 70), Reading(110, 200)}
MCAverages == {Missing, 90, 100, 110}
=============================================================================
