SPECIFICATION FairSpec
CONSTANTS
    SendCapacity = 2
    RecvCapacity = 1
    StreamLength = 2
    Isn = 30
    Modulus = 32
    Word = 1000
    MaxPayload = 1
    InitialRto = 1
    MaxLosses = 1
    MaxRetx = 2
    MaxAcks = 2
    AckOrders = {FALSE}
    FinOvertakes = FALSE
PROPERTY EverythingArrives
