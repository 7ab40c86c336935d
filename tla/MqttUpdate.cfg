CONSTANTS
    d1 = d1
    c1 = c1
    c2 = c2
    c3 = c3
    plain = plain
    moved = moved
    topicless = topicless
    Device = {d1}
    NoDevice = nodevice
    Slot = {c1, c2}
    Config = {plain, moved}
    NoTopic = {}
    NoSlot = noslot
    NoRow = norow
    MaxCrashes = 0
SPECIFICATION Spec
INVARIANT UpdateSticks
CHECK_DEADLOCK FALSE
