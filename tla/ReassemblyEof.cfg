SPECIFICATION EofFairSpec
CONSTANTS
    Capacity = 2
    StreamLength = 2
PROPERTY EndIsSeen
