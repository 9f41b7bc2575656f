SPECIFICATION FairSpec
CONSTANTS
    Lowest = 3
    Priorities <- MCPriorities
    Colors = {red}
    Black = black
    ProtoClients = {c1}
    BoblightClients = {b1, b2}
    Messages <- MCMessages
    BoblightPriority = 2
    UdpPriority = 1
    UdpTimeout = 1
    MaxTime = 2
    MaxEvents = 3
INVARIANTS
    BoblightLeavesNothing
    LastMessageHandled
    RegisteredIsOpen
PROPERTIES
    Reconnects
CHECK_DEADLOCK FALSE
