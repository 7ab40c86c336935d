CONSTANTS
    u1 = u1
    u2 = u2
    dev = dev
    dec = dec
    broken = broken
    none = none
    push = push
    share = share
    Uplink = {u1, u2}
    Device = {dev}
    Decoder = {dec}
    NoDecoder = none
    Target = {push, share}
    Unsupported = {share}
    TokenTargets = {}
    SourceOf <- OneDevice
    InitialLinks <- TwoRoutes
    Undecodable <- ThrowsOnSecond
    MaxFaults = 0
    MaxCrashes = 1
    MaxEdits = 1
SPECIFICATION Spec
INVARIANTS TypeOK 
PROPERTY ImplementsDelivery
CHECK_DEADLOCK FALSE
