SPECIFICATION SocketSpec
CONSTANTS
    SendCapacity = 2
    RecvCapacity = 3
    StreamLengths <- StreamLengthsValue
    Isn <- IsnValue
    Modulus = 32
    Word = 1000
    MaxPayload = 2
    InitialRto = 1
    MaxRetxAttempts = 0
    LingerTime = 1
    MaxLosses = 0
    MaxOnWire = 1
    Reordered = FALSE
    MayDestroy = {}
    PipeCapacity = 1
INVARIANT NeverThrows
