CONSTANTS
    Decoders <- MCDecoders
    Encoders <- MCEncoders
    Samples <- MCSamples
    UnknownFields <- MCUnknownFields
    Damage = {0, 7, 128, 255}
SPECIFICATION Spec
INVARIANTS
    MarshalledIsUnderstood
    CutIsPrefix
    EveryTurnAdvances
