CONSTANTS
    d1 = d1
    c1 = c1
    c2 = c2
    c3 = c3
    plain = plain
    moved = moved
    topicless = topicless
    Device = {d1}
    NoDevice = nodevice
    Slot = {c1, c2, c3}
    Config = {plain, topicless}
    NoTopic = {topicless}
    NoSlot = noslot
    NoRow = norow
    MaxCrashes = 1
SPECIFICATION Spec
INVARIANTS TypeOK NoDanglingRegistration RegisteredUnlessUpdated 
CHECK_DEADLOCK FALSE
