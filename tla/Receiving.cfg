SPECIFICATION FairSpec
CONSTANTS
    Capacity = 3
    StreamLength = 22
    Lifetime = 2
    Modulus = 20
    Word = 1000
    Isns = {0, 17}
    FinOvertakes = FALSE
INVARIANTS TypeOK InPlace AckExact EndExact
PROPERTIES EdgesAdvance RefinesDelivery StreamEnds
