SPECIFICATION FairSpec
CONSTANTS
    SendCapacity = 1
    RecvCapacity = 1
    StreamLengths <- StreamLengthsValue
    Isn <- IsnValue
    Modulus = 32
    Word = 1000
    MaxPayload = 1
    InitialRto = 1
    MaxRetxAttempts = 1
    LingerTime = 2
    MaxLosses = 1
    MaxOnWire = 2
    Reordered = FALSE
    MayDestroy = {"y"}
INVARIANT CleanEnd
PROPERTIES StateMachine EndsForGood BothEnd

