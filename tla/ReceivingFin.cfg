SPECIFICATION Spec
CONSTANTS
    Capacity = 3
    StreamLength = 2
    Lifetime = 2
    Modulus = 20
    Word = 1000
    Isns = {0}
    FinOvertakes = TRUE
INVARIANT AckExact
