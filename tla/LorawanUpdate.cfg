CONSTANTS
    r1 = r1
    r2 = r2
    r3 = r3
    old = old
    e1 = e1
    e2 = e2
    a1 = a1
    a2 = a2
    c1 = c1
    c2 = c2
    c3 = c3
    c4 = c4
    Request = {r1, r2}
    Old = {old}
    InitialRow <- OldRow
    Eui = {e1, e2}
    App = {a1, a2}
    NoApp = noapp
    CsApp = {c1, c2, c3, c4}
    NoCs = nocs
    InitialCs <- OldCs
    NoRow = norow
    MaxFaults = 1
SPECIFICATION Spec
INVARIANT UpdateInBoth
SYMMETRY AnyOrder
CHECK_DEADLOCK FALSE
