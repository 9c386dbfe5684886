SPECIFICATION Spec
CONSTANTS
    Kinds = {"udp", "tun", "tap"}
    Address <- AddressValue
    Ethernet <- EthernetValue
    Segments <- SegmentsValue
    Broadcast <- BroadcastValue
    Garbled = Garbled
    NoSegment = NoSegment
    RequestTimeout = 0
    MappingTimeout = 1
    MaxDrops = 1
    MaxDamaged = 1
    MaxTime = 2
INVARIANTS Intact OnePeer Accepted
CHECK_DEADLOCK FALSE
