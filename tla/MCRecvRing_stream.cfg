\* Four packets through a ring of eight bytes, over several connections.
CONSTANTS
    Capacity = 8
    MaxPacketSize = 4
    HeaderSize = 2
    Claims <- SmallClaims
    MaxPackets = 4
SPECIFICATION Spec
CHECK_DEADLOCK FALSE
INVARIANTS
    TypeOK
    RoomForPacket
    WaitsForMore
PROPERTIES
    IsStream
