SPECIFICATION FairSpec
CONSTANTS
    SendCapacity = 3
    RecvCapacity = 2
    StreamLength = 3
    Isn = 30
    Modulus = 32
    Word = 1000
    MaxPayload = 2
    InitialRto = 1
    MaxLosses = 1
    MaxRetx = 2
    MaxAcks = 2
    AckOrders = {TRUE, FALSE}
    FinOvertakes = FALSE
INVARIANTS TypeOK InFlightExact NothingForgotten TimerRuns WindowRespected InPlace EndAgrees
PROPERTY ArrivesInOrder
