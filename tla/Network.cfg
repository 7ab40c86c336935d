CONSTANTS
    Request = {r1, r2, r3}
    None = none
    MaxFaults = 1
    Gateway = {g1}
    Org = {o1, o2}
    OldGateways = {g1}
    OldOrg = o1
    First = first
    Handler = {r1, r2, r3}
    HourlyCap = 1
    Hour = 2
    SavedDays = 2
    MaxListeners = 2
    MaxTime = 3
    MaxCrashes = 1
    Caller = {q1, q2}
    Device = {d1, d2, d3}
    d3 = d3
    OldDevices = {d1}
    OldMulticast = m0
    app1 = app1
    app2 = app2
    CsAppOf <- TwoApplications
SPECIFICATION Spec
SYMMETRY AnyOrder
INVARIANTS
    TypeOK GatewaysInStep UpdatedAtTrue  LastStatusKept HourCapped
    GroupsInStep MembersFollow  QueueOverwritten
CHECK_DEADLOCK FALSE
