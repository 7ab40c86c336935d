CONSTANTS
    u1 = u1
    u2 = u2
    dev = dev
    dec = dec
    broken = broken
    none = none
    push = push
    share = share
    Uplink = {u1}
    Device = {dev}
    Decoder = {dec, broken}
    NoDecoder = none
    Target = {push}
    Unsupported = {}
    TokenTargets = {push}
    SourceOf <- OneDevice
    InitialLinks <- WithBroken
    Undecodable <- ThrowsAlways
    MaxFaults = 2
    MaxCrashes = 1
    MaxEdits = 0
SPECIFICATION FairSpec
INVARIANTS CopiesBounded
 
CHECK_DEADLOCK FALSE
