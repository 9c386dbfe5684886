SPECIFICATION Spec
CONSTANTS
    Broadcast = Broadcast
    Garbled = Garbled
    NoHop = NoHop
    RequestTimeout = 0
    MappingTimeout = 1
    AddressBits = 8
    Traffic <- TrafficToMit
    RouteOrders <- RouteOrdersValue
    MaxDatagrams = 1
    MaxGarbled = 0
    MaxTime = 1
INVARIANT NothingUnexpected
CHECK_DEADLOCK FALSE
