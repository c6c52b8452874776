---------------------------- MODULE MCProtoWire -----------------------------
(* An instance of ProtoWire for TLC: every message of the program. *)
EXTENDS ProtoWire

PerpV1 == INSTANCE WirePerpV1
Amm == INSTANCE WireAmm
PerpV2 == INSTANCE WirePerpV2
Spot == INSTANCE WireSpot
Oracle == INSTANCE WireOracle
Stablecoin == INSTANCE WireStablecoin
Inflation == INSTANCE WireInflation
Epochs == INSTANCE WireEpochs
Sudo == INSTANCE WireSudo

\* The tables of all packages, by package and message.
ByPackage(perpV1, amm, perpV2, spot, oracle, stablecoin, inflation, epochs, sudo) ==
    [perpV1 |-> perpV1, amm |-> amm, perpV2 |-> perpV2, spot |-> spot, oracle |-> oracle,
     stablecoin |-> stablecoin, inflation |-> inflation, epochs |-> epochs, sudo |-> sudo]
MCDecoders ==
    ByPackage(PerpV1!Unmarshals, Amm!Unmarshals, PerpV2!Unmarshals, Spot!Unmarshals,
              Oracle!Unmarshals, Stablecoin!Unmarshals, Inflation!Unmarshals,
              Epochs!Unmarshals, Sudo!Unmarshals)
MCEncoders ==
    ByPackage(PerpV1!Marshals, Amm!Marshals, PerpV2!Marshals, Spot!Marshals,
              Oracle!Marshals, Stablecoin!Marshals, Inflation!Marshals,
              Epochs!Marshals, Sudo!Marshals)

\* -1 in 32 and in 64 bits, a pointer to an empty message, an empty list element.
MCSamples ==
    [varint |-> <<<<1>>, [k \in 1..10 |-> IF k = 10 THEN 1 ELSE 127]>>,
     enum |-> <<<<0, 1>>, <<127, 127, 127, 127, 15>>>>,
     bool |-> <<<<1>>, <<1>>>>,
     string |-> <<<<65>>, <<200, 8>>>>,
     custom |-> <<<<48>>, <<45, 49>>>>,
     time |-> <<<<8, 1>>, <<16, 1>>>>,
     duration |-> <<<<8, 2>>, <<16, 2>>>>,
     message |-> <<<<8, 1>>, <<10, 0>>>>,
     pointer |-> <<<<<<8, 1>>>>, <<<<>>>>>>,
     strings |-> <<<<<<65>>>>, <<<<>>, <<66, 8>>>>>>,
     messages |-> <<<<<<8, 1>>>>, <<<<>>, <<16, 2>>>>>>,
     customs |-> <<<<<<48>>>>, <<<<49>>, <<50>>>>>>]
\* A number, fixed64, bytes, a group with a group in it, and fixed32, of field 1000.
MCUnknownFields ==
    {<<192, 62, 129, 1>>,
     <<193, 62, 0, 1, 2, 3, 4, 5, 6, 7>>,
     <<194, 62, 2, 8, 1>>,
     <<195, 62, 11, 8, 1, 12, 196, 62>>,
     <<197, 62, 1, 2, 3, 4>>}
=============================================================================
