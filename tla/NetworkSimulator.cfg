SPECIFICATION FairSpec
CONSTANTS
    Broadcast = Broadcast
    Garbled = Garbled
    NoHop = NoHop
    RequestTimeout = 0
    MappingTimeout = 1
    AddressBits = 8
    Traffic <- TrafficValue
    RouteOrders <- RouteOrdersValue
    MaxDatagrams = 2
    MaxGarbled = 1
    MaxTime = 2
INVARIANTS NothingUnexpected OneCopy Fresh KnowsNeighbours
PROPERTY AllReceived
CHECK_DEADLOCK FALSE
