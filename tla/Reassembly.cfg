SPECIFICATION FairSpec
CONSTANTS
    Capacity = 7
    StreamLength = 9
INVARIANTS TypeOK Apart InPlace NoDanglingRead UnassembledExact WithinCapacity
PROPERTIES RefinesDelivery AllRead
