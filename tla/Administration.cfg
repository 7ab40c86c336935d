CONSTANTS
    Request = {r1, r2}
    Asker = {q1, q2}
    None = none
    MaxFaults = 1
    User = {u1, u2}
    OldUser = u1
    u2 = u2
    Org = {o1, o2}
    OldOrg = o1
    o1 = o1
    o2 = o2
    App = {a1}
    ApiKey = {k1}
    Asked <- OneHasAsked
    MaxGiven = 1
    Applications = {a1, a2}
    a1 = a1
    appReader = appReader
    admin = admin
    global = global
    guest = guest
    Perm <- FourPermissions
    LevelsOf <- FourLevels
    OrgOf <- FourOrganizations
    AppOrg <- OneEach
    Lists <- ReaderListsMore
    MaxMoves = 2
    OldRow = x0
    SigFoxDevice = {s1, s2}
    OldSigFoxDevice = s1
    Type = {t1, t2}
    OldType = t1
    MaxCallbacks = 2
    OldGroup = g0
    Login = {c1, c2, c3}
    ValidLogin = {c1, c2}
    MaxUpdates = 1
    MaxTokens = 4
    MaxTokenFaults = 2
    OldProfiles = {p0}
    Name = {n1, nn1, n2}
    n1 = n1
    Lower <- LowerCase
    nn1 = nn1
    Organization = {o1}
    EndDevice = {d1, d2}
    CsApplication = {b1, b2}
    MaxPuts = 1
    Device = {d1, d2}
    d1 = d1
    DeviceApp <- FirstApart
    TargetApp = a1
    ModelOrg = o1
    OldTarget = {t1}
    OldConnection = {c1}
    OldDataset = {s1}
    OldDecoder = {p1}
    OldModel = {m1}
SPECIFICATION Spec
SYMMETRY AnyOrder
INVARIANTS
    TypeOK GrantsKept ApplicationsReached MembershipWhole
    NothingUnheld NothingWithheld CleanedRightly DownlinksKept OneCallback
    LoginKept RetryWithAnother ProfilesWhole ConnectionsWhole
CHECK_DEADLOCK FALSE
